---- MODULE Spec2Model ----
(***************************************************************************)
(* Verification model of the option-pricing toolkit (src/src/*.py).        *)
(*                                                                         *)
(* Numbers.  The Python code works in IEEE doubles.  The model works on    *)
(* integer grids: a volatility is a whole number of the smallest           *)
(* resolvable volatility step, a price a whole number of the smallest      *)
(* resolvable price step, and an operation that rounds in floating point   *)
(* (0.5 * (low + high), diff / vega) rounds to the grid here.  The         *)
(* lattice part uses exact fractions <<num, den>>.                         *)
(*                                                                         *)
(* Failures.  A Python exception is a record with its class (exc) and the  *)
(* raise site that identifies its message (site).                          *)
(***************************************************************************)
EXTENDS Integers, Sequences, FiniteSets, TLC

VARIABLES
    \* ---- implied_vol: arguments (implied_vol.py:31-44)
    price, option_type, method, lower, upper, tol, max_iter,
    \* ---- implied_vol: what S, K, r, q, T determine
    disc_spot, disc_strike, slope, kink, vega_level,
    \* ---- implied_vol: locals and position
    pc, low, high, sigma, iter, evals, last, result,
    \* ---- lattice (binomial.py): the operation called and its arguments
    lat_op, S0, K, N, T, sigma_in, exp_r, exp_q, lat_type,
    \* ---- replication_one_step (binomial.py:69): its node values
    Su_in, Sd_in, Vu_in, Vd_in,
    \* ---- lattice: locals and position
    lat_pc, crr, step, values, stock_layers, option_layers, delta_layers,
    bond_layers, lat_result,
    \* ---- price tables (implied_vol.py:108-141, stoch_vol.py:114-145)
    tbl_op, price_table, has_columns, tbl_pc, row, out, failed_rows, tbl_result,
    \* ---- a pricing call (black_scholes.py, pde_fd.py, monte_carlo.py):
    \* the operation, its Pricing Parameters, its controls and its outcome
    prc_op, p_S, p_K, p_sigma, p_T, p_type, p_M, p_N, p_scheme, prc_pc,
    prc_result,
    \* ---- fd_price_european_bs (pde_fd.py:59-157): arguments
    fd_S0, fd_K, fd_r, fd_q, fd_vol, fd_type, fd_Smax, fd_M, fd_N, fd_scheme,
    \* ---- fd_price_european_bs: locals, position and outcome
    fd_pc, fd_n, fd_V, value_grid, fd_solved, fd_written, fd_result,
    \* ---- simulation calls (monte_carlo.py, processes.py), one per caller:
    \* the operation, its seed, path count and antithetic flag
    sim_op, sim_seed, n_paths, antithetic,
    \* ---- simulation calls: position, generator, variates drawn so far (in
    \* order), the vector z, start time, outcome
    sim_pc, rng, drawn, z, sim_start, sim_result,
    \* ---- process-wide: NumPy's global seed (utils.py:16), the clock
    np_global, clock,
    \* ---- simulate_delta_hedge_on_paths (hedging.py:50-106), two
    \* invocations on the same paths: arguments
    paths, rebalance_every_k_steps, growth, hedge_type, tx_cost_per_dollar,
    \* ---- simulate_delta_hedge_on_paths: position, locals, counts of the
    \* interest accruals and rebalances made, outcome
    hedge_pc, hedge_step, delta_pos, cash, accruals, rebalances, hedge_result,
    \* ---- protective_put_overlay_simulation (portfolio_overlay.py:16-80):
    \* arguments, the two columns read from the simulated path, outcome
    ov_S0, K_put, T_put, T_sim, notional, premium_budget_fraction, ov_n_steps,
    ov_path, ov_pc, ov_result,
    \* ---- simulate_heston_lite_paths (stoch_vol.py:14-54): arguments
    hv_V0, kappa, xi, rho, hv_n_paths, hv_n_steps, hv_seed,
    \* ---- simulate_heston_lite_paths: shocks, loop index, the matrices (one
    \* row per path, S as twice its logarithm), the arguments np.sqrt was
    \* called with, outcome
    dW1, dW2, hv_t, hv_S, hv_V, sqrt_args, hv_pc, hv_result,
    \* ---- put_call_parity_check (black_scholes.py:83-89) and
    \* gk_put_call_parity_residual (fx_options.py:55-61): the operation, its
    \* arguments as far as the prices depend on them (spot, strike, the two
    \* discount factors and the normal cdf at d1 and d2, in eighths, whether
    \* sigma and T are positive), outcome
    par_op, par_S, par_K, par_dq, par_dr, cdf_d1, cdf_d2, par_sigma, par_T,
    par_pc, par_result,
    \* ---- _thomas_solver (pde_fd.py:31-56): arguments
    th_lower, th_diag, th_upper, th_rhs,
    \* ---- _thomas_solver: locals, the rows visited so far, position, outcome
    c_prime, d_prime, th_x, th_i, th_visits, th_pc, th_result,
    \* ---- mc_control_variate_with_terminal_asset (monte_carlo.py:131-145):
    \* the sample of terminal spots drawn, position, outcome
    cv_ST, cv_pc, cv_result,
    \* ---- hedging_experiment_grid (hedging.py:169-220): arguments
    grid_seed, grid_n_paths, rebalance_list, tx_cost_list, grid_type,
    grid_growth,
    \* ---- hedging_experiment_grid: the array of paths, the position in the
    \* two loops, the rows so far, position, outcome
    base_paths, grid_k, grid_tx, rows, grid_pc, grid_result

ivInputs == <<price, option_type, method, lower, upper, tol, max_iter,
              disc_spot, disc_strike, slope, kink, vega_level>>
ivVars == <<ivInputs, pc, low, high, sigma, iter, evals, last, result>>

latInputs == <<lat_op, S0, K, N, T, sigma_in, exp_r, exp_q, lat_type,
               Su_in, Sd_in, Vu_in, Vd_in>>
latVars == <<latInputs, lat_pc, crr, step, values, stock_layers, option_layers,
             delta_layers, bond_layers, lat_result>>

tblVars == <<tbl_op, price_table, has_columns, tbl_pc, row, out, failed_rows,
             tbl_result>>

prcInputs == <<prc_op, p_S, p_K, p_sigma, p_T, p_type, p_M, p_N, p_scheme>>
prcVars == <<prcInputs, prc_pc, prc_result>>

fdInputs == <<fd_S0, fd_K, fd_r, fd_q, fd_vol, fd_type, fd_Smax, fd_M, fd_N,
              fd_scheme>>
fdVars == <<fdInputs, fd_pc, fd_n, fd_V, value_grid, fd_solved, fd_written,
            fd_result>>

\* The engines beyond the solver, the lattice, the tables and the pricing
\* calls.
simInputs == <<sim_op, sim_seed, n_paths, antithetic>>
simVars == <<simInputs, sim_pc, rng, drawn, z, sim_start, sim_result,
             np_global, clock>>

hedgeInputs == <<paths, rebalance_every_k_steps, growth, hedge_type,
                 tx_cost_per_dollar>>
hedgeVars == <<hedgeInputs, hedge_pc, hedge_step, delta_pos, cash, accruals,
               rebalances, hedge_result>>

ovInputs == <<ov_S0, K_put, T_put, T_sim, notional, premium_budget_fraction,
              ov_n_steps, ov_path>>
ovVars == <<ovInputs, ov_pc, ov_result>>

hvInputs == <<hv_V0, kappa, xi, rho, hv_n_paths, hv_n_steps, hv_seed>>
hvVars == <<hvInputs, dW1, dW2, hv_t, hv_S, hv_V, sqrt_args, hv_pc, hv_result>>

parInputs == <<par_op, par_S, par_K, par_dq, par_dr, cdf_d1, cdf_d2, par_sigma,
               par_T>>
parVars == <<parInputs, par_pc, par_result>>

thInputs == <<th_lower, th_diag, th_upper, th_rhs>>
thVars == <<thInputs, c_prime, d_prime, th_x, th_i, th_visits, th_pc,
            th_result>>

cvVars == <<cv_ST, cv_pc, cv_result>>

gridInputs == <<grid_seed, grid_n_paths, rebalance_list, tx_cost_list,
                grid_type, grid_growth>>
gridVars == <<gridInputs, base_paths, grid_k, grid_tx, rows, grid_pc,
              grid_result>>

moreVars == <<thVars, cvVars, gridVars>>
extVars == <<fdVars, simVars, hedgeVars, ovVars, hvVars, parVars, moreVars>>

ivOthers == <<latVars, tblVars, prcVars, extVars>>
latOthers == <<ivVars, tblVars, prcVars, extVars>>
tblOthers == <<latVars, prcVars, extVars>>
prcOthers == <<ivVars, latVars, tblVars, extVars>>
coreVars == <<ivVars, latVars, tblVars, prcVars>>
fdOthers == <<coreVars, simVars, hedgeVars, ovVars, hvVars, parVars,
              moreVars>>
simOthers == <<coreVars, fdVars, hedgeVars, ovVars, hvVars, parVars,
               moreVars>>
hedgeOthers == <<coreVars, fdVars, simVars, ovVars, hvVars, parVars,
                 moreVars>>
ovOthers == <<coreVars, fdVars, simVars, hedgeVars, hvVars, parVars,
              moreVars>>
hvOthers == <<coreVars, fdVars, simVars, hedgeVars, ovVars, parVars,
              moreVars>>
parOthers == <<coreVars, fdVars, simVars, hedgeVars, ovVars, hvVars,
               moreVars>>
baseVars == <<fdVars, simVars, hedgeVars, ovVars, hvVars, parVars>>
thOthers == <<coreVars, baseVars, cvVars, gridVars>>
cvOthers == <<coreVars, baseVars, thVars, gridVars>>
gridOthers == <<coreVars, baseVars, thVars, cvVars>>

vars == <<ivVars, latVars, tblVars, prcVars, extVars>>

(***************************************************************************)
(* Bounds of the model.                                                    *)
(***************************************************************************)
MaxSigma == 8
MaxIter == 3
MaxPrice == 9
MaxSlope == 3
MaxVega == 2
MaxN == 2
MaxRows == 2
MaxM == 4
MaxPaths == 3
MaxClock == 1
MaxSteps == 3
MaxSize == 3
Scale == 16

Max(a, b) == IF a >= b THEN a ELSE b
Min(a, b) == IF a <= b THEN a ELSE b
Abs(a) == IF a >= 0 THEN a ELSE -a

OptionTypes == {"call", "put", "straddle"}
Methods == {"hybrid", "bisection"}
DiscSpots == {8}
DiscStrikes == {4, 8}
Tols == {1, 2}
Lowers == {0, 1}

NoResult == [kind |-> "none", exc |-> "none", site |-> "none", value |-> 0]
Return(site, v) == [kind |-> "return", exc |-> "none", site |-> site, value |-> v]
Raise(exc, site) == [kind |-> "raise", exc |-> exc, site |-> site, value |-> 0]

NoStep == [step |-> "none", diff |-> 0, vega |-> 0, cand |-> 0,
           low0 |-> 0, high0 |-> 0, sigma0 |-> 0]

(***************************************************************************)
(* implied_vol.py                                                          *)
(***************************************************************************)

\* implied_vol.py:17-28.  <<lower, upper>> no-arbitrage price bounds.
NoArbitrageBounds(spot, strike, kind) ==
    IF kind = "call"
    THEN <<Max(0, spot - strike), spot>>
    ELSE <<Max(0, strike - spot), strike>>

\* implied_vol.py:63.
WithinBounds_strict(p, bounds, t) == bounds[1] <= p /\ p <= bounds[2]

WithinBounds(p, bounds, t) == bounds[1] - t <= p /\ p <= bounds[2] + t

\* black_scholes.py:11-19 as seen from implied_vol: S, K and T are fixed
\* and valid, the volatility is the argument that varies.
ValidateInputs(s) == s > 0

\* black_scholes.py:92-99.  The analytic price as a function of the
\* volatility: it starts at the lower no-arbitrage bound, is non-decreasing
\* and never exceeds the upper one.  norm.cdf is scipy's; the curve's shape
\* (where it leaves the lower bound, how steep it is) is drawn in Init.
bs_price(s) ==
    LET b == NoArbitrageBounds(disc_spot, disc_strike, option_type)
    IN  Min(b[2], b[1] + slope * Max(0, s - kink))

\* black_scholes.py:76-80.  Vega is zero where the price is flat.
bs_vega(s) ==
    IF s <= kink \/ bs_price(s) = bs_price(s + 1) THEN 0 ELSE vega_level

\* implied_vol.py:90.  The floor 1e-10 lies below the price grid's step.
VegaFloor == 0

\* implied_vol.py:80 and :100.
Midpoint(lo, hi) == (lo + hi) \div 2

\* implied_vol.py:84.
Converged_loose(d, t) == Abs(d) <= t

Converged(d, t) == Abs(d) < t

\* implied_vol.py:81.
BudgetLeft_extra(i, n) == i <= n

BudgetLeft(i, n) == i < n

\* implied_vol.py:91.
NewtonCandidate(s, d, v) == s - (d \div v)

\* implied_vol.py:87-92.
TakeNewton_unguarded(m, s, d, v, lo, hi) ==
    /\ m = "hybrid"
    /\ v > VegaFloor

TakeNewton(m, s, d, v, lo, hi) ==
    /\ m = "hybrid"
    /\ v > VegaFloor
    /\ lo < NewtonCandidate(s, d, v)
    /\ NewtonCandidate(s, d, v) < hi

\* implied_vol.py:96-99.  <<low, high>> after the update.
NarrowBracket_flipped(d, s, lo, hi) == IF d > 0 THEN <<s, hi>> ELSE <<lo, s>>

NarrowBracket(d, s, lo, hi) == IF d > 0 THEN <<lo, s>> ELSE <<s, hi>>

\* implied_vol.py:102.
WidthBelowTol_never(lo, hi, t) == FALSE

WidthBelowTol(lo, hi, t) == hi - lo < t

IVInit ==
    /\ price \in -1 .. MaxPrice
    /\ option_type \in OptionTypes
    /\ method \in Methods
    /\ lower \in Lowers
    /\ upper \in {MaxSigma \div 2, MaxSigma}
    /\ tol \in Tols
    /\ max_iter \in 0 .. MaxIter
    /\ disc_spot \in DiscSpots
    /\ disc_strike \in DiscStrikes
    /\ slope \in 1 .. MaxSlope
    /\ kink \in 0 .. 1
    /\ vega_level \in 1 .. MaxVega
    /\ pc = "check_price"
    /\ low = 0
    /\ high = 0
    /\ sigma = 0
    /\ iter = 0
    /\ evals = 0
    /\ last = NoStep
    /\ result = NoResult

Finish(r) ==
    /\ pc' = "done"
    /\ result' = r

\* implied_vol.py:59-60.
CheckPrice ==
    /\ UNCHANGED ivOthers
    /\ pc = "check_price"
    /\ IF price <= 0
       THEN Finish(Raise("ValueError", "price_not_positive"))
       ELSE pc' = "check_bounds" /\ UNCHANGED result
    /\ UNCHANGED <<ivInputs, low, high, sigma, iter, evals, last>>

\* implied_vol.py:62-66, with _no_arbitrage_bounds' own failure (:27).
CheckBounds ==
    /\ UNCHANGED ivOthers
    /\ pc = "check_bounds"
    /\ IF option_type \notin {"call", "put"}
       THEN Finish(Raise("ValueError", "option_type"))
       ELSE IF ~WithinBounds(price,
                   NoArbitrageBounds(disc_spot, disc_strike, option_type), tol)
       THEN Finish(Raise("ValueError", "no_arbitrage"))
       ELSE pc' = "bracket" /\ UNCHANGED result
    /\ UNCHANGED <<ivInputs, low, high, sigma, iter, evals, last>>

\* implied_vol.py:68-80.
Bracket ==
    /\ UNCHANGED ivOthers
    /\ pc = "bracket"
    /\ low' = lower
    /\ high' = upper
    /\ IF ~ValidateInputs(lower)
       THEN /\ Finish(Raise("ValueError", "invalid_parameter"))
            /\ evals' = evals + 1
            /\ UNCHANGED sigma
       ELSE IF ~ValidateInputs(upper)
       THEN /\ Finish(Raise("ValueError", "invalid_parameter"))
            /\ evals' = evals + 2
            /\ UNCHANGED sigma
       ELSE /\ evals' = evals + 2
            /\ LET f_low == bs_price(lower) - price
                   f_high == bs_price(upper) - price
               IN  IF f_low = 0
                   THEN Finish(Return("f_low_zero", lower)) /\ UNCHANGED sigma
                   ELSE IF f_high = 0
                   THEN Finish(Return("f_high_zero", upper)) /\ UNCHANGED sigma
                   ELSE IF f_low * f_high > 0
                   THEN Finish(Raise("ValueError", "bracket")) /\ UNCHANGED sigma
                   ELSE /\ sigma' = Midpoint(lower, upper)
                        /\ pc' = "loop"
                        /\ UNCHANGED result
    /\ UNCHANGED <<ivInputs, iter, last>>

Step(kind, d, v, c) ==
    [step |-> kind, diff |-> d, vega |-> v, cand |-> c,
     low0 |-> low, high0 |-> high, sigma0 |-> sigma]

\* implied_vol.py:82-85.
IterResidual ==
    /\ UNCHANGED ivOthers
    /\ pc = "loop"
    /\ BudgetLeft(iter, max_iter)
    /\ LET diff == bs_price(sigma) - price
       IN  /\ Converged(diff, tol)
           /\ last' = Step("residual", diff, 0, 0)
    /\ Finish(Return("residual", sigma))
    /\ iter' = iter + 1
    /\ evals' = evals + 1
    /\ UNCHANGED <<ivInputs, low, high, sigma>>

\* implied_vol.py:82-94.
IterNewton ==
    /\ UNCHANGED ivOthers
    /\ pc = "loop"
    /\ BudgetLeft(iter, max_iter)
    /\ LET diff == bs_price(sigma) - price
           vega == bs_vega(sigma)
       IN  /\ ~Converged(diff, tol)
           /\ TakeNewton(method, sigma, diff, vega, low, high)
           /\ sigma' = NewtonCandidate(sigma, diff, vega)
           /\ last' = Step("newton", diff, vega, NewtonCandidate(sigma, diff, vega))
    /\ iter' = iter + 1
    /\ evals' = evals + 1
    /\ UNCHANGED <<ivInputs, pc, low, high, result>>

\* implied_vol.py:82-103.
IterBisect ==
    /\ UNCHANGED ivOthers
    /\ pc = "loop"
    /\ BudgetLeft(iter, max_iter)
    /\ LET diff == bs_price(sigma) - price
           vega == IF method = "hybrid" THEN bs_vega(sigma) ELSE 0
           cand == IF method = "hybrid" /\ vega > VegaFloor
                   THEN NewtonCandidate(sigma, diff, vega) ELSE 0
           b == NarrowBracket(diff, sigma, low, high)
       IN  /\ ~Converged(diff, tol)
           /\ ~TakeNewton(method, sigma, diff, vega, low, high)
           /\ low' = b[1]
           /\ high' = b[2]
           /\ sigma' = Midpoint(b[1], b[2])
           /\ last' = Step("bisect", diff, vega, cand)
           /\ IF WidthBelowTol(b[1], b[2], tol)
              THEN Finish(Return("width", Midpoint(b[1], b[2])))
              ELSE UNCHANGED <<pc, result>>
    /\ iter' = iter + 1
    /\ evals' = evals + 1
    /\ UNCHANGED ivInputs

\* implied_vol.py:81 and :105.
Exhausted ==
    /\ UNCHANGED ivOthers
    /\ pc = "loop"
    /\ ~BudgetLeft(iter, max_iter)
    /\ Finish(Raise("RuntimeError", "not_converged"))
    /\ UNCHANGED <<ivInputs, low, high, sigma, iter, evals, last>>

IVNext ==
    \/ CheckPrice
    \/ CheckBounds
    \/ Bracket
    \/ IterResidual
    \/ IterNewton
    \/ IterBisect
    \/ Exhausted

(***************************************************************************)
(* The error kinds of the design, as the code raises them.                 *)
(***************************************************************************)
\* black_scholes.py:13-19, implied_vol.py:60.
InvalidParameterExc == "ValueError"
\* implied_vol.py:64, binomial.py:27.
NoArbitrageExc == "ValueError"
\* implied_vol.py:105.
NonConvergenceExc == "RuntimeError"

(***************************************************************************)
(* Properties of implied_vol.                                              *)
(***************************************************************************)
LoopEntered == evals >= 2 /\ result.site \notin
                   {"invalid_parameter", "f_low_zero", "f_high_zero", "bracket"}

C1_State ==
    /\ iter <= max_iter
    /\ (result.kind = "return" /\ last.step # "none") =>
          \/ last.step = "residual" /\ Abs(last.diff) < tol
          \/ last.step = "bisect" /\ ~(Abs(last.diff) < tol) /\ high - low < tol
    /\ (pc = "done" /\ LoopEntered) =>
          \/ result.kind = "return" /\ result.site \in {"residual", "width"}
          \/ result = Raise(NonConvergenceExc, "not_converged")
    /\ result.site = "not_converged" =>
          /\ iter = max_iter
          /\ last.step \in {"none", "newton", "bisect"}
          /\ last.step = "none" <=> max_iter = 0
          /\ last.step # "none" => ~(Abs(last.diff) < tol)
          /\ last.step = "bisect" => ~(high - low < tol)

C1_Step ==
    pc = "loop" =>
        IF iter = max_iter
        THEN result' = Raise(NonConvergenceExc, "not_converged") /\ iter' = iter
        ELSE result'.kind # "raise" /\ iter' = iter + 1

\* C1: once the bracket check has passed, implied_vol runs at most max_iter
\* iterations; it returns only from an iteration whose residual is below
\* tol or whose bisected bracket is narrower than tol, and it raises the
\* non-convergence failure exactly when max_iter iterations ran without
\* either (max_iter = 0 included); it never returns once the budget is spent.
C1_Termination == [](C1_State) /\ [][C1_Step]_vars

C1_Witness ==
    /\ result.site = "not_converged"
    /\ max_iter >= 2
    /\ iter = max_iter
    /\ last.step = "bisect"

PriceOutside ==
    IF option_type = "call"
    THEN \/ price < Max(0, disc_spot - disc_strike) - tol
         \/ price > disc_spot + tol
    ELSE \/ price < Max(0, disc_strike - disc_spot) - tol
         \/ price > disc_strike + tol

PastBoundsCheck == pc \in {"bracket", "loop"} \/ evals > 0

\* C2 (as amended): for a call or a put, every positive observed price
\* outside [lower_bound - tol, upper_bound + tol] is rejected with the
\* no-arbitrage failure before the model price is evaluated, and every
\* positive price inside passes; a non-positive price is rejected earlier,
\* with the positive-price failure.
C2_PositivePriceBounds ==
    /\ result.site = "price_not_positive" => price <= 0 /\ evals = 0
    /\ (pc \notin {"check_price"} /\ price <= 0) =>
           result = Raise(InvalidParameterExc, "price_not_positive")
    /\ (pc \notin {"check_price", "check_bounds"} /\ price > 0
            /\ option_type \in {"call", "put"}) =>
           /\ PriceOutside <=> result = Raise(NoArbitrageExc, "no_arbitrage")
           /\ PriceOutside => evals = 0
           /\ ~PriceOutside <=> PastBoundsCheck

C2_Witness ==
    /\ result.site = "no_arbitrage"
    /\ option_type = "put"
    /\ price > disc_strike + tol

\* C2 as stated: every price outside the interval is rejected with the
\* no-arbitrage failure (read here as any failure of that exception class,
\* raised before the model price is evaluated), and every price inside the
\* interval passes the check.
C2_AllPricesBounds ==
    (pc \notin {"check_price", "check_bounds"}
        /\ option_type \in {"call", "put"}) =>
           /\ PriceOutside =>
                  /\ result.kind = "raise"
                  /\ result.exc = NoArbitrageExc
                  /\ evals = 0
           /\ ~PriceOutside => PastBoundsCheck

NewtonInside(st) ==
    /\ st.low0 < st.sigma0 - (st.diff \div st.vega)
    /\ st.sigma0 - (st.diff \div st.vega) < st.high0

\* C3: a Newton step is attempted only in hybrid mode with vega above the
\* floor, and its candidate becomes the next sigma only when it lies
\* strictly inside the bracket; in every other case the next sigma is the
\* midpoint of the updated bracket.
C3_NewtonOrBisect ==
    /\ last.step \in {"newton", "bisect"} =>
           last.diff = bs_price(last.sigma0) - price
    /\ last.step = "newton" =>
           /\ method = "hybrid"
           /\ last.vega = bs_vega(last.sigma0)
           /\ last.vega > VegaFloor
           /\ sigma = last.sigma0 - (last.diff \div last.vega)
           /\ last.low0 < sigma /\ sigma < last.high0
    /\ last.step = "bisect" =>
           /\ \/ method = "bisection"
              \/ bs_vega(last.sigma0) <= VegaFloor
              \/ ~NewtonInside([last EXCEPT !.vega = bs_vega(last.sigma0)])
           /\ sigma = (low + high) \div 2

C3_Witness ==
    /\ last.step = "bisect"
    /\ method = "hybrid"
    /\ last.vega > VegaFloor
    /\ pc = "loop"

\* C4 (as amended): an iteration that accepts no Newton candidate narrows
\* the bracket by the sign of the residual at the current sigma (high
\* becomes sigma when it is positive, otherwise low becomes sigma), in both
\* modes; an iteration that accepts a Newton candidate leaves the bracket
\* as it is.  The width never grows, and it strictly decreases in a
\* narrowing iteration whose sigma lies strictly inside the bracket.
C4_BracketNarrowing ==
    /\ last.step = "bisect" =>
           /\ IF last.diff > 0
              THEN high = last.sigma0 /\ low = last.low0
              ELSE low = last.sigma0 /\ high = last.high0
           /\ high - low <= last.high0 - last.low0
           /\ (last.low0 < last.sigma0 /\ last.sigma0 < last.high0) =>
                  high - low < last.high0 - last.low0
    /\ last.step = "newton" => low = last.low0 /\ high = last.high0

C4_Witness ==
    /\ last.step = "bisect"
    /\ method = "hybrid"
    /\ pc = "loop"
    /\ last.diff > 0
    /\ high - low < last.high0 - last.low0

\* C4 as stated: every iteration that does not return narrows the bracket
\* by the sign of the residual, so the width strictly decreases.
C4_EveryIterationNarrows ==
    (pc = "loop" /\ last.step # "none") =>
        /\ IF last.diff > 0
           THEN high = last.sigma0 /\ low = last.low0
           ELSE low = last.sigma0 /\ high = last.high0
        /\ high - low < last.high0 - last.low0

\* C5: a bracket whose two ends give the objective the same sign fails
\* without iterating, with a failure of the non-convergence kind (the kind
\* of budget exhaustion, and not the kind of an invalid parameter or a
\* no-arbitrage violation); an objective that is zero at an end returns
\* that end.
C5_BracketFailureKind ==
    /\ result.site = "bracket" =>
           /\ iter = 0 /\ last.step = "none"
           /\ (bs_price(lower) - price) * (bs_price(upper) - price) > 0
           /\ result.exc = NonConvergenceExc
    /\ result.site = "f_low_zero" => result.value = lower
    /\ result.site = "f_high_zero" => result.value = upper

\* The volatilities strictly inside the search bracket whose exact analytic
\* price is the observed price.
RoundTripSigmas ==
    {s \in lower + 1 .. upper - 1 :
        option_type \in {"call", "put"} /\ bs_price(s) = price}

ReturnedFromCall == pc = "done" /\ result.kind = "return"

\* test_implied_vol.py:23: the recovery tolerance 1e-6, a hundred times the
\* default tol, on the volatility grid.
RecoveryTol == 2

ObjectiveIncreasing ==
    /\ option_type \in {"call", "put"}
    /\ lower < upper
    /\ \A s \in lower .. upper - 1 : bs_price(s) < bs_price(s + 1)

AtIterationStart == pc = "loop" /\ BudgetLeft(iter, max_iter)

ReturnedFromLoop ==
    ReturnedFromCall /\ result.site \in {"residual", "width"}

\* C27 as amended: when lower < upper and the objective is increasing, at
\* the start of every iteration lower <= low <= sigma <= high <= upper,
\* with low < sigma < high while the bracket is wider than the spacing of
\* adjacent volatilities; the objective is negative at low and positive at
\* high; the model price is never evaluated outside [lower, upper]; every
\* value returned from the loop lies in [lower, upper].
C27_BracketInvariant ==
    ObjectiveIncreasing =>
        /\ AtIterationStart =>
               /\ lower <= low /\ low <= sigma /\ sigma <= high
               /\ high <= upper
               /\ high - low > 1 => (low < sigma /\ sigma < high)
               /\ bs_price(low) - price < 0
               /\ bs_price(high) - price > 0
        /\ last.step # "none" =>
               lower <= last.sigma0 /\ last.sigma0 <= upper
        /\ ReturnedFromLoop =>
               lower <= result.value /\ result.value <= upper

\* C27's case: an iteration starts after a Newton step and a bisection
\* have moved sigma and the bracket.
C27_Witness ==
    /\ ObjectiveIncreasing
    /\ AtIterationStart
    /\ iter >= 2
    /\ lower < low /\ high < upper
    /\ low < sigma /\ sigma < high

\* C27 as stated: at the start of every iteration
\* lower <= low < sigma < high <= upper.
C27_StrictBracket ==
    (ObjectiveIncreasing /\ AtIterationStart) =>
        /\ lower <= low /\ low < sigma /\ sigma < high /\ high <= upper
        /\ bs_price(low) - price < 0
        /\ bs_price(high) - price > 0

RECURSIVE RoundedHalvings(_, _)
\* The widest bracket left of width w by k bisections about the rounded
\* midpoint.
RoundedHalvings(w, k) ==
    IF k = 0 THEN w ELSE RoundedHalvings(w - (w \div 2), k - 1)

\* C28 as amended: with method bisection every non-returning iteration
\* replaces the bracket by its lower or upper half about the computed
\* midpoint, so the width halves up to rounding; the solver returns within
\* the number of such rounded halvings that brings the width below tol, and
\* NonConvergence is raised only when max_iter halvings leave the width at
\* or above tol.
C28_BisectionBound ==
    method = "bisection" =>
        /\ last.step = "bisect" =>
               /\ last.sigma0 = (last.low0 + last.high0) \div 2
               /\ \/ low = last.low0 /\ high = last.sigma0
                  \/ low = last.sigma0 /\ high = last.high0
        /\ pc = "loop" =>
               /\ high - low <= RoundedHalvings(upper - lower, iter)
               /\ iter >= 1 =>
                      /\ high - low >= tol
                      /\ RoundedHalvings(upper - lower, iter) >= tol
        /\ result.site = "not_converged" =>
               RoundedHalvings(upper - lower, max_iter) >= tol

\* C28's case: three bisections have brought a bracket of width 7 to width
\* 1, which is not below tol, and the budget is spent.
C28_Witness ==
    /\ method = "bisection"
    /\ result.site = "not_converged"
    /\ max_iter = 3 /\ last.step = "bisect"
    /\ upper - lower = 7 /\ high - low = 1

\* C28 as stated: every non-returning iteration exactly halves the width,
\* and NonConvergence is raised only when max_iter is smaller than the
\* smallest k with (upper - lower) / 2^k < tol.
C28_ExactHalving ==
    method = "bisection" =>
        /\ (pc = "loop" /\ last.step = "bisect") =>
               2 * (high - low) = last.high0 - last.low0
        /\ result.site = "not_converged" =>
               \A k \in 0 .. max_iter : ~(upper - lower < tol * (2 ^ k))

(***************************************************************************)
(* Exact fractions <<num, den>>, den > 0, in lowest terms.  NaN stands for *)
(* every non-finite double (x / 0.0 in numpy): it propagates through       *)
(* arithmetic and every comparison with it is false.                       *)
(***************************************************************************)
RECURSIVE GCD(_, _)
GCD(a, b) == IF b = 0 THEN a ELSE GCD(b, a % b)

NaN == <<0, 0>>
IsNaN(x) == x[2] = 0
Frac(n, d) ==
    IF d = 0 THEN NaN
    ELSE LET g == GCD(Abs(n), Abs(d))
             sg == IF d < 0 THEN -1 ELSE 1
         IN  <<sg * (n \div g), sg * (d \div g)>>
R(n) == <<n, 1>>
RAdd(x, y) ==
    IF IsNaN(x) \/ IsNaN(y) THEN NaN
    ELSE LET l == (x[2] \div GCD(x[2], y[2])) * y[2]
         IN  Frac(x[1] * (l \div x[2]) + y[1] * (l \div y[2]), l)
RNeg(x) == IF IsNaN(x) THEN NaN ELSE <<-x[1], x[2]>>
RSub(x, y) == RAdd(x, RNeg(y))
RMul(x, y) ==
    IF IsNaN(x) \/ IsNaN(y) THEN NaN
    ELSE LET a == Frac(x[1], y[2])
             b == Frac(y[1], x[2])
         IN  <<a[1] * b[1], a[2] * b[2]>>
RDiv(x, y) ==
    IF IsNaN(x) \/ IsNaN(y) \/ y[1] = 0 THEN NaN
    ELSE RMul(x, Frac(y[2], y[1]))
RLe(x, y) == ~IsNaN(x) /\ ~IsNaN(y) /\ x[1] * y[2] <= y[1] * x[2]
RLt(x, y) == ~IsNaN(x) /\ ~IsNaN(y) /\ x[1] * y[2] < y[1] * x[2]
\* np.maximum propagates a NaN.
RMax(x, y) == IF IsNaN(x) \/ IsNaN(y) THEN NaN ELSE IF RLe(y, x) THEN x ELSE y
RECURSIVE RPow(_, _)
RPow(x, n) == IF n = 0 THEN R(1) ELSE RMul(x, RPow(x, n - 1))

(***************************************************************************)
(* binomial.py                                                             *)
(***************************************************************************)
LatOps == {"crr_parameters", "price_european_binomial", "replication_tree"}
\* Node values offered to replication_one_step.
NodeStocks == {0, 4, 8}
NodeValues == {0, 2, 4}
Spots == {0, 4, 8}
Strikes == {4, 6}
\* exp(r * dt) and exp(q * dt) for the rates offered.
ExpRs == {<<1, 1>>, <<5, 4>>, <<4, 1>>}
ExpQs == {<<1, 1>>, <<5, 4>>}
\* exp(sigma * sqrt(dt)) for the positive volatilities offered.
UpFactor(s) == IF s = 1 THEN <<3, 2>> ELSE <<2, 1>>

NoCrr == [u |-> R(0), d |-> R(0), p |-> R(0)]
LatNoResult == [kind |-> "none", exc |-> "none", site |-> "none",
                price |-> R(0), gap |-> R(0)]
LatRaise(exc, site) == [kind |-> "raise", exc |-> exc, site |-> site,
                        price |-> R(0), gap |-> R(0)]
LatReturn(pr, g) == [kind |-> "return", exc |-> "none", site |-> "none",
                     price |-> pr, gap |-> g]

\* binomial.py:22-24.
CrrValues(s, er, eq) ==
    LET u == UpFactor(s)
        d == RDiv(R(1), u)
    IN  [u |-> u, d |-> d,
         p |-> RDiv(RSub(RDiv(er, eq), d), RSub(u, d))]

\* binomial.py:26.
ProbabilityOk_lower_only(p) == RLe(R(0), p)

ProbabilityOk(p) == RLe(R(0), p) /\ RLe(p, R(1))

\* binomial.py:14-30.  The failure crr_parameters ends with, or "none".
CrrFailure(s, dt, er, eq) ==
    IF s <= 0 THEN "sigma_not_positive"
    ELSE IF dt <= 0 THEN "dt_not_positive"
    ELSE IF ~ProbabilityOk(CrrValues(s, er, eq).p) THEN "probability"
    ELSE "none"

\* binomial.py:33-38.
Payoff(stock, strike, kind) ==
    IF kind = "call"
    THEN [i \in 1 .. Len(stock) |-> RMax(RSub(stock[i], R(strike)), R(0))]
    ELSE [i \in 1 .. Len(stock) |-> RMax(RSub(R(strike), stock[i]), R(0))]

\* x[1:] and x[:-1].
UpSlice(x) == Tail(x)
DownSlice(x) == SubSeq(x, 1, Len(x) - 1)

\* binomial.py:60-61 and :102-103.
StockLayer(s0, c, k) ==
    [j \in 1 .. k + 1 |->
        RMul(R(s0), RMul(RPow(c.u, j - 1), RPow(c.d, k - (j - 1))))]

\* binomial.py:58, :98 and :121: exp(-r * dt).
Discount(er) == RDiv(R(1), er)

\* binomial.py:65 and :113.
BackwardStep_keep(next_values, c, disc) ==
    [i \in 1 .. Len(next_values) |-> RMul(disc, next_values[i])]

BackwardStep(next_values, c, disc) ==
    LET up == UpSlice(next_values)
        dn == DownSlice(next_values)
    IN  [i \in 1 .. Len(up) |->
            RMul(disc, RAdd(RMul(c.p, up[i]), RMul(RSub(R(1), c.p), dn[i])))]

\* binomial.py:115-120.
Deltas(next_values, next_stock) ==
    LET Vu == UpSlice(next_values)
        Vd == DownSlice(next_values)
        Su == UpSlice(next_stock)
        Sd == DownSlice(next_stock)
    IN  [i \in 1 .. Len(Vu) |-> RDiv(RSub(Vu[i], Vd[i]), RSub(Su[i], Sd[i]))]

\* binomial.py:121.
Bonds(next_values, next_stock, delta, disc) ==
    LET Vu == UpSlice(next_values)
        Su == UpSlice(next_stock)
    IN  [i \in 1 .. Len(Vu) |->
            RMul(disc, RSub(Vu[i], RMul(delta[i], Su[i])))]

LatInit ==
    /\ lat_op \in LatOps
    /\ S0 \in Spots
    /\ K \in Strikes
    /\ N \in 0 .. MaxN
    /\ T \in {0, 1}
    /\ sigma_in \in 0 .. 2
    /\ exp_r \in ExpRs
    /\ exp_q \in ExpQs
    /\ lat_type \in OptionTypes
    /\ Su_in = 0 /\ Sd_in = 0 /\ Vu_in = 0 /\ Vd_in = 0
    /\ lat_pc = "start"
    /\ crr = NoCrr
    /\ step = 0
    /\ values = <<>>
    /\ stock_layers = <<>>
    /\ option_layers = <<>>
    /\ delta_layers = <<>>
    /\ bond_layers = <<>>
    /\ lat_result = LatNoResult

\* A call of replication_one_step(Su, Sd, Vu, Vd, r, dt).
OneStepInit ==
    /\ lat_op = "replication_one_step"
    /\ Su_in \in NodeStocks /\ Sd_in \in NodeStocks
    /\ Vu_in \in NodeValues /\ Vd_in \in NodeValues
    /\ exp_r \in ExpRs
    /\ S0 = 0 /\ K = 0 /\ N = 1 /\ T = 1 /\ sigma_in = 0
    /\ exp_q = R(1) /\ lat_type = "call"
    /\ lat_pc = "start"
    /\ crr = NoCrr
    /\ step = 0
    /\ values = <<>>
    /\ stock_layers = <<>>
    /\ option_layers = <<>>
    /\ delta_layers = <<>>
    /\ bond_layers = <<>>
    /\ lat_result = LatNoResult

LatFinish(r) ==
    /\ lat_pc' = "done"
    /\ lat_result' = r

CrrRaise(f) ==
    IF f = "probability"
    THEN LatRaise("ValueError", "probability")
    ELSE LatRaise("ValueError", f)

\* binomial.py:14-30, called on its own with dt = T.
CallCrrParameters ==
    /\ UNCHANGED latOthers
    /\ lat_op = "crr_parameters"
    /\ lat_pc = "start"
    /\ LET f == CrrFailure(sigma_in, T, exp_r, exp_q)
       IN  IF f # "none"
           THEN LatFinish(CrrRaise(f)) /\ UNCHANGED crr
           ELSE /\ crr' = CrrValues(sigma_in, exp_r, exp_q)
                /\ LatFinish(LatReturn(R(0), R(0)))
    /\ UNCHANGED <<latInputs, step, values, stock_layers, option_layers,
                   delta_layers, bond_layers>>

\* binomial.py:53-62.
BinomialStart ==
    /\ UNCHANGED latOthers
    /\ lat_op = "price_european_binomial"
    /\ lat_pc = "start"
    /\ IF N <= 0
       THEN LatFinish(LatRaise("ValueError", "N_not_positive"))
            /\ UNCHANGED <<crr, step, values>>
       ELSE LET f == CrrFailure(sigma_in, T, exp_r, exp_q)
            IN  IF f # "none"
                THEN LatFinish(CrrRaise(f)) /\ UNCHANGED <<crr, step, values>>
                ELSE IF lat_type \notin {"call", "put"}
                THEN /\ LatFinish(LatRaise("ValueError", "option_type"))
                     /\ crr' = CrrValues(sigma_in, exp_r, exp_q)
                     /\ UNCHANGED <<step, values>>
                ELSE /\ crr' = CrrValues(sigma_in, exp_r, exp_q)
                     /\ values' = Payoff(StockLayer(S0, crr', N), K, lat_type)
                     /\ step' = N
                     /\ lat_pc' = "induction"
                     /\ UNCHANGED lat_result
    /\ UNCHANGED <<latInputs, stock_layers, option_layers, delta_layers,
                   bond_layers>>

\* binomial.py:64-65.
BinomialStep ==
    /\ UNCHANGED latOthers
    /\ lat_op = "price_european_binomial"
    /\ lat_pc = "induction"
    /\ step > 0
    /\ values' = BackwardStep(values, crr, Discount(exp_r))
    /\ step' = step - 1
    /\ UNCHANGED <<latInputs, lat_pc, crr, stock_layers, option_layers,
                   delta_layers, bond_layers, lat_result>>

\* binomial.py:66.
BinomialFinish ==
    /\ UNCHANGED latOthers
    /\ lat_op = "price_european_binomial"
    /\ lat_pc = "induction"
    /\ step = 0
    /\ LatFinish(LatReturn(values[1], R(0)))
    /\ UNCHANGED <<latInputs, crr, step, values, stock_layers, option_layers,
                   delta_layers, bond_layers>>

\* binomial.py:96-109.  Layer k is element k + 1 of a layer sequence.
ReplicationStart ==
    /\ UNCHANGED latOthers
    /\ lat_op = "replication_tree"
    /\ lat_pc = "start"
    /\ IF N = 0
       THEN LatFinish(LatRaise("ZeroDivisionError", "T_over_N"))
            /\ UNCHANGED <<crr, step, stock_layers, option_layers,
                           delta_layers, bond_layers>>
       ELSE LET f == CrrFailure(sigma_in, T, exp_r, exp_q)
                c == CrrValues(sigma_in, exp_r, exp_q)
                stock == [k \in 1 .. N + 1 |-> StockLayer(S0, c, k - 1)]
            IN  IF f # "none"
                THEN LatFinish(CrrRaise(f))
                     /\ UNCHANGED <<crr, step, stock_layers, option_layers,
                                    delta_layers, bond_layers>>
                ELSE /\ crr' = c
                     /\ stock_layers' = stock
                     /\ IF lat_type \notin {"call", "put"}
                        THEN /\ LatFinish(LatRaise("ValueError", "option_type"))
                             /\ UNCHANGED <<step, option_layers, delta_layers,
                                            bond_layers>>
                        ELSE /\ option_layers' =
                                    [k \in 1 .. N + 1 |->
                                        IF k = N + 1
                                        THEN Payoff(stock[N + 1], K, lat_type)
                                        ELSE <<>>]
                             /\ delta_layers' = [k \in 1 .. N |-> <<>>]
                             /\ bond_layers' = [k \in 1 .. N |-> <<>>]
                             /\ step' = N
                             /\ lat_pc' = "induction"
                             /\ UNCHANGED lat_result
    /\ UNCHANGED <<latInputs, values>>

\* binomial.py:111-123, one pass of the loop: step - 1 is the layer filled.
ReplicationStep ==
    /\ UNCHANGED latOthers
    /\ lat_op = "replication_tree"
    /\ lat_pc = "induction"
    /\ step > 0
    /\ LET next_values == option_layers[step + 1]
           next_stock == stock_layers[step + 1]
           delta == Deltas(next_values, next_stock)
           bond == Bonds(next_values, next_stock, delta, Discount(exp_r))
       IN  /\ option_layers' =
                 [option_layers EXCEPT
                     ![step] = BackwardStep(next_values, crr, Discount(exp_r))]
           /\ delta_layers' = [delta_layers EXCEPT ![step] = delta]
           /\ bond_layers' = [bond_layers EXCEPT ![step] = bond]
    /\ step' = step - 1
    /\ UNCHANGED <<latInputs, lat_pc, crr, values, stock_layers, lat_result>>

\* binomial.py:125-136.
ReplicationFinish ==
    /\ UNCHANGED latOthers
    /\ lat_op = "replication_tree"
    /\ lat_pc = "induction"
    /\ step = 0
    /\ LET root_price == option_layers[1][1]
           root_repl == RAdd(RMul(delta_layers[1][1], R(S0)), bond_layers[1][1])
       IN  LatFinish(LatReturn(root_price, RSub(root_repl, root_price)))
    /\ UNCHANGED <<latInputs, crr, step, values, stock_layers, option_layers,
                   delta_layers, bond_layers>>

\* binomial.py:72: the node is degenerate.
Degenerate_never(su, sd) == FALSE

Degenerate(su, sd) == su = sd

\* binomial.py:69-77.  The pair (delta, bond) is returned as a one-node
\* delta layer and bond layer.
ReplicationOneStep ==
    /\ UNCHANGED latOthers
    /\ lat_op = "replication_one_step"
    /\ lat_pc = "start"
    /\ IF Degenerate(Su_in, Sd_in)
       THEN /\ LatFinish(LatRaise("ValueError", "Su_equals_Sd"))
            /\ UNCHANGED <<delta_layers, bond_layers>>
       ELSE LET delta == RDiv(RSub(R(Vu_in), R(Vd_in)),
                             RSub(R(Su_in), R(Sd_in)))
                bond == RMul(Discount(exp_r),
                             RSub(R(Vu_in), RMul(delta, R(Su_in))))
            IN  /\ delta_layers' = <<<<delta>>>>
                /\ bond_layers' = <<<<bond>>>>
                /\ LatFinish(LatReturn(R(0), R(0)))
    /\ UNCHANGED <<latInputs, crr, step, values, stock_layers, option_layers>>

LatNext ==
    \/ ReplicationOneStep
    \/ CallCrrParameters
    \/ BinomialStart
    \/ BinomialStep
    \/ BinomialFinish
    \/ ReplicationStart
    \/ ReplicationStep
    \/ ReplicationFinish

(***************************************************************************)
(* A component that is not the one called stays as constructed.            *)
(***************************************************************************)
IVIdle ==
    /\ price = 0 /\ option_type = "call" /\ method = "hybrid"
    /\ lower = 0 /\ upper = 0 /\ tol = 0 /\ max_iter = 0
    /\ disc_spot = 0 /\ disc_strike = 0 /\ slope = 0 /\ kink = 0
    /\ vega_level = 0
    /\ pc = "idle" /\ low = 0 /\ high = 0 /\ sigma = 0 /\ iter = 0
    /\ evals = 0 /\ last = NoStep /\ result = NoResult

LatIdle ==
    /\ lat_op = "none" /\ S0 = 0 /\ K = 0 /\ N = 0 /\ T = 0 /\ sigma_in = 0
    /\ exp_r = R(1) /\ exp_q = R(1) /\ lat_type = "call"
    /\ Su_in = 0 /\ Sd_in = 0 /\ Vu_in = 0 /\ Vd_in = 0
    /\ lat_pc = "idle" /\ crr = NoCrr /\ step = 0 /\ values = <<>>
    /\ stock_layers = <<>> /\ option_layers = <<>> /\ delta_layers = <<>>
    /\ bond_layers = <<>> /\ lat_result = LatNoResult


(***************************************************************************)
(* Properties of the lattice engine.                                       *)
(***************************************************************************)
ProbabilityComputed ==
    LET u == UpFactor(sigma_in)
    IN  RDiv(RSub(RDiv(exp_r, exp_q), RDiv(R(1), u)), RSub(u, RDiv(R(1), u)))

InUnitInterval(p) == RLe(R(0), p) /\ RLe(p, R(1))

\* C8: crr_parameters, given a positive volatility and step size, either
\* returns a probability p with 0 <= p <= 1 or fails with the no-arbitrage
\* failure; it never returns a p outside [0, 1], and price_european_binomial
\* and replication_tree run their backward induction, and return a price,
\* only on a lattice whose p lies in [0, 1].
C8_ProbabilityInUnitInterval ==
    /\ (lat_op = "crr_parameters" /\ lat_pc = "done"
            /\ sigma_in > 0 /\ T > 0) =>
           IF InUnitInterval(ProbabilityComputed)
           THEN lat_result.kind = "return" /\ crr.p = ProbabilityComputed
           ELSE lat_result = LatRaise(NoArbitrageExc, "probability")
    /\ (lat_op = "crr_parameters" /\ lat_result.kind = "return") =>
           InUnitInterval(crr.p)
    /\ (lat_op \in {"price_european_binomial", "replication_tree"}
            /\ (lat_pc = "induction" \/ lat_result.kind = "return")) =>
           /\ crr.p = ProbabilityComputed
           /\ InUnitInterval(crr.p)
    /\ lat_result.site = "probability" => ~InUnitInterval(ProbabilityComputed)

C8_Witness ==
    /\ lat_op = "replication_tree"
    /\ lat_result.site = "probability"
    /\ RLt(R(1), ProbabilityComputed)

\* |g| < 1e-10, for a fraction g: den / |num| is at least 10^5 * 10^5.
GapBelowTol(g) ==
    /\ ~IsNaN(g)
    /\ \/ g[1] = 0
       \/ (g[2] \div Abs(g[1])) \div 100000 >= 100000

\* C9: for every lattice replication_tree builds, the root replicating
\* value delta_0 * S0 + bond_0 equals the root option value within 1e-10
\* (stated here for a positive spot).
C9_RootReplicationGap ==
    (lat_op = "replication_tree" /\ lat_result.kind = "return" /\ S0 > 0) =>
        GapBelowTol(lat_result.gap)

LayersBuilt == lat_op = "replication_tree" /\ lat_pc \in {"induction", "done"}
                 /\ lat_result.kind # "raise"

\* C10 (as amended): in the lattice of replication_tree for N steps, the
\* stock layer and the option layer k hold k + 1 values each, for every
\* k in 0..N, and for every k < N layer k holds k + 1 replication pairs
\* (one delta and one bond for each of its k + 1 nodes).
C10_LayerSizes ==
    LayersBuilt =>
        /\ Len(stock_layers) = N + 1 /\ Len(option_layers) = N + 1
        /\ Len(delta_layers) = N /\ Len(bond_layers) = N
        /\ \A k \in 0 .. N : Len(stock_layers[k + 1]) = k + 1
        /\ \A k \in step .. N : Len(option_layers[k + 1]) = k + 1
        /\ \A k \in step .. N - 1 :
               /\ Len(delta_layers[k + 1]) = k + 1
               /\ Len(bond_layers[k + 1]) = k + 1

C10_Witness ==
    /\ lat_op = "replication_tree"
    /\ lat_result.kind = "return"
    /\ N >= 2
    /\ Len(delta_layers[2]) = 2

\* C10 as stated: for every k < N the layer holds exactly k replication
\* pairs.
C10_LayerSizesAsStated ==
    (lat_op = "replication_tree" /\ lat_result.kind = "return") =>
        /\ \A k \in 0 .. N :
               /\ Len(stock_layers[k + 1]) = k + 1
               /\ Len(option_layers[k + 1]) = k + 1
        /\ \A k \in 0 .. N - 1 :
               /\ Len(delta_layers[k + 1]) = k
               /\ Len(bond_layers[k + 1]) = k


DegenerateInputExc == "ValueError"

\* The nodes of layer k whose replication pair has been computed and whose
\* up and down stock values coincide.
DegenerateNodes ==
    {kn \in (0 .. N - 1) \X (1 .. N) :
        /\ kn[1] >= step
        /\ kn[2] <= kn[1] + 1
        /\ stock_layers[kn[1] + 2][kn[2] + 1] = stock_layers[kn[1] + 2][kn[2]]}

\* C11: whenever replication weights are computed for a node with Su = Sd
\* the computation fails with the degenerate-input error and produces no
\* (delta, bond) pair: replication_one_step called with Su = Sd ends in that
\* failure, and replication_tree never holds a pair for a node whose up and
\* down stock values coincide.
C11_DegenerateNodeFails ==
    /\ (lat_op = "replication_one_step" /\ lat_pc = "done"
            /\ Su_in = Sd_in) =>
           /\ lat_result = LatRaise(DegenerateInputExc, "Su_equals_Sd")
           /\ delta_layers = <<>> /\ bond_layers = <<>>
    /\ (lat_op = "replication_tree" /\ LayersBuilt) => DegenerateNodes = {}

\* replication_one_step alone does fail on every degenerate node, and
\* returns a pair on every other.
C11_OneStepFails ==
    (lat_op = "replication_one_step" /\ lat_pc = "done") =>
        IF Su_in = Sd_in
        THEN /\ lat_result = LatRaise(DegenerateInputExc, "Su_equals_Sd")
             /\ delta_layers = <<>> /\ bond_layers = <<>>
        ELSE /\ lat_result.kind = "return"
             /\ Len(delta_layers) = 1 /\ ~IsNaN(delta_layers[1][1])

(***************************************************************************)
(* implied_vol_surface_from_prices (implied_vol.py:108-141) and            *)
(* implied_vol_smile_from_sv_prices (stoch_vol.py:114-145).  Both apply    *)
(* implied_vol to the rows of a price table, in order, with its default    *)
(* lower, upper, tol and max_iter; the call of implied_vol is the solver   *)
(* above, run on the row's price, strike and option type.                  *)
(***************************************************************************)
TableOps == {"implied_vol_surface_from_prices",
             "implied_vol_smile_from_sv_prices"}
TablePrices == {0, 3, MaxPrice}
TableRows == [price : TablePrices, strike : DiscStrikes,
              option_type : {"call", "put"}]
\* An entry of the implied_vol column: a float, which may be float("nan").
NotANumber == [nan |-> TRUE, value |-> 0]
Number(v) == [nan |-> FALSE, value |-> v]

TableInit ==
    /\ tbl_op \in TableOps
    /\ price_table \in UNION {[1 .. n -> TableRows] : n \in 1 .. MaxRows}
    /\ has_columns \in BOOLEAN
    /\ tbl_pc = "start"
    /\ row = 0
    /\ out = <<>>
    /\ failed_rows = {}
    /\ tbl_result = NoResult
    \* S, r, q and method are arguments of the table operation; lower,
    \* upper, tol and max_iter are implied_vol's defaults (implied_vol.py:40-43).
    /\ method \in Methods
    /\ disc_spot \in DiscSpots
    /\ slope \in 1 .. MaxSlope
    /\ kink \in 0 .. 1
    /\ vega_level \in 1 .. MaxVega
    /\ lower = 1
    /\ upper = MaxSigma
    /\ tol = 1
    /\ max_iter = MaxIter
    /\ price = 0 /\ option_type = "call" /\ disc_strike = 0
    /\ pc = "idle" /\ low = 0 /\ high = 0 /\ sigma = 0 /\ iter = 0
    /\ evals = 0 /\ last = NoStep /\ result = NoResult

\* implied_vol.py:122-127 and stoch_vol.py:123-126, :143.
TableStart ==
    /\ tbl_pc = "start"
    /\ IF ~has_columns
       THEN /\ tbl_pc' = "done"
            /\ tbl_result' = Raise("ValueError", "missing_columns")
       ELSE /\ tbl_pc' = "row"
            /\ UNCHANGED tbl_result
    /\ UNCHANGED <<tbl_op, price_table, has_columns, row, out, failed_rows>>
    /\ UNCHANGED <<ivVars, tblOthers>>

\* implied_vol.py:128-138 and stoch_vol.py:130-139: the call of implied_vol
\* on the next row.
BeginRow ==
    /\ tbl_pc = "row"
    /\ pc = "idle"
    /\ row < Len(price_table)
    /\ row' = row + 1
    /\ price' = price_table[row + 1].price
    /\ disc_strike' = price_table[row + 1].strike
    /\ option_type' = price_table[row + 1].option_type
    /\ pc' = "check_price"
    /\ low' = 0 /\ high' = 0 /\ sigma' = 0 /\ iter' = 0 /\ evals' = 0
    /\ last' = NoStep
    /\ result' = NoResult
    /\ UNCHANGED <<method, lower, upper, tol, max_iter, disc_spot, slope, kink,
                   vega_level>>
    /\ UNCHANGED <<tbl_op, price_table, has_columns, tbl_pc, out, failed_rows,
                   tbl_result>>
    /\ UNCHANGED tblOthers

\* stoch_vol.py:128-141: _solve catches every exception of the row.
SolveCatches(r) == IF r.kind = "raise" THEN NotANumber ELSE Number(r.value)

\* stoch_vol.py:140-145.
EndRowSmile ==
    /\ tbl_op = "implied_vol_smile_from_sv_prices"
    /\ tbl_pc = "row"
    /\ pc = "done"
    /\ out' = Append(out, SolveCatches(result))
    /\ failed_rows' = IF result.kind = "raise"
                      THEN failed_rows \cup {row} ELSE failed_rows
    /\ pc' = "idle"
    /\ UNCHANGED <<tbl_op, price_table, has_columns, tbl_pc, row, tbl_result>>
    /\ UNCHANGED <<ivInputs, low, high, sigma, iter, evals, last, result>>
    /\ UNCHANGED tblOthers

\* implied_vol.py:128-140: the lambda has no handler.
EndRowSurface ==
    /\ tbl_op = "implied_vol_surface_from_prices"
    /\ tbl_pc = "row"
    /\ pc = "done"
    /\ IF result.kind = "raise"
       THEN /\ tbl_result' = Raise(result.exc, result.site)
            /\ tbl_pc' = "done"
            /\ failed_rows' = failed_rows \cup {row}
            /\ UNCHANGED out
       ELSE /\ out' = Append(out, Number(result.value))
            /\ UNCHANGED <<tbl_pc, tbl_result, failed_rows>>
    /\ pc' = "idle"
    /\ UNCHANGED <<tbl_op, price_table, has_columns, row>>
    /\ UNCHANGED <<ivInputs, low, high, sigma, iter, evals, last, result>>
    /\ UNCHANGED tblOthers

\* implied_vol.py:141 and stoch_vol.py:145.
TableReturn ==
    /\ tbl_pc = "row"
    /\ pc = "idle"
    /\ row = Len(price_table)
    /\ tbl_pc' = "done"
    /\ tbl_result' = Return("table", Len(out))
    /\ UNCHANGED <<tbl_op, price_table, has_columns, row, out, failed_rows>>
    /\ UNCHANGED <<ivVars, tblOthers>>

TableNext ==
    \/ TableStart
    \/ BeginRow
    \/ EndRowSmile
    \/ EndRowSurface
    \/ TableReturn

TableIdle ==
    /\ tbl_op = "none" /\ price_table = <<>> /\ has_columns = TRUE
    /\ tbl_pc = "idle" /\ row = 0 /\ out = <<>> /\ failed_rows = {}
    /\ tbl_result = NoResult

(***************************************************************************)
(* Properties of the table operations.                                     *)
(***************************************************************************)
\* C6: no operation turns a failure into a default or sentinel value: when
\* the inversion of a row of the price table fails, the whole call of
\* implied_vol_smile_from_sv_prices or implied_vol_surface_from_prices fails.
C6_FailurePropagates ==
    (tbl_pc = "done" /\ failed_rows # {}) =>
        /\ tbl_result.kind = "raise"
        /\ \A i \in 1 .. Len(out) : ~out[i].nan


(***************************************************************************)
(* Pricing calls: the analytic functions (black_scholes.py), the           *)
(* finite-difference pricer (pde_fd.py) and the terminal Monte Carlo       *)
(* pricer (monte_carlo.py), each as far as it decides between failing and  *)
(* returning a price.                                                      *)
(***************************************************************************)
AnalyticOps == {"bs_price", "bs_delta", "bs_gamma", "bs_vega"}
PricerOps == AnalyticOps \cup
                 {"fd_price_european_bs", "mc_price_european_gbm_terminal"}
Scalars == {-1, 0, 1}
Schemes == {"CN", "implicit", "explicit"}
SpaceSteps == {2, 3}
TimeSteps == {0, 1}

Priced == [kind |-> "return", exc |-> "none", site |-> "price", value |-> 0]

\* black_scholes.py:11-19.  The failure _validate_inputs ends with, or "none".
ValidateFailure(S, strike, vol, mat) ==
    IF S <= 0 THEN "S_not_positive"
    ELSE IF strike <= 0 THEN "K_not_positive"
    ELSE IF vol <= 0 THEN "sigma_not_positive"
    ELSE IF mat <= 0 THEN "T_not_positive"
    ELSE "none"

\* black_scholes.py:22-41, :69-80: d1_d2 validates, then the closed form.
AnalyticNoKind(S, strike, vol, mat) ==
    IF ValidateFailure(S, strike, vol, mat) # "none"
    THEN Raise("ValueError", ValidateFailure(S, strike, vol, mat))
    ELSE Priced

\* black_scholes.py:92-99: the dispatch on option_type comes first.
BsPrice(S, strike, vol, mat, kind) ==
    IF kind \notin {"call", "put"}
    THEN Raise("ValueError", "option_type")
    ELSE AnalyticNoKind(S, strike, vol, mat)

\* black_scholes.py:58-66: d1_d2 first, then the dispatch.
BsDelta(S, strike, vol, mat, kind) ==
    IF ValidateFailure(S, strike, vol, mat) # "none"
    THEN Raise("ValueError", ValidateFailure(S, strike, vol, mat))
    ELSE IF kind \notin {"call", "put"}
    THEN Raise("ValueError", "option_type")
    ELSE Priced

\* pde_fd.py:82-157: the grid sizes, the option type and the scheme are
\* checked; S0, K, sigma and T are used as given.
FdPrice(S, strike, vol, mat, kind, M, Nt, scheme) ==
    IF M < 3 \/ Nt < 1
    THEN Raise("ValueError", "grid")
    ELSE IF kind \notin {"call", "put"}
    THEN Raise("ValueError", "option_type")
    ELSE IF scheme \notin {"CN", "implicit"}
    THEN Raise("ValueError", "scheme")
    ELSE Priced

\* monte_carlo.py:43-71: math.sqrt(T) fails for T < 0 (:56), _payoff checks
\* the option type (:59); S0, K and sigma are used as given.
McTerminal(S, strike, vol, mat, kind) ==
    IF mat < 0
    THEN Raise("ValueError", "math_domain")
    ELSE IF kind \notin {"call", "put"}
    THEN Raise("ValueError", "option_type")
    ELSE Priced

PricerInit ==
    /\ prc_op \in PricerOps
    /\ p_S \in Scalars
    /\ p_K \in Scalars
    /\ p_sigma \in Scalars
    /\ p_T \in Scalars
    /\ p_type \in IF prc_op \in {"bs_gamma", "bs_vega"}
                  THEN {"call"} ELSE OptionTypes
    /\ p_M \in IF prc_op = "fd_price_european_bs" THEN SpaceSteps ELSE {3}
    /\ p_N \in IF prc_op = "fd_price_european_bs" THEN TimeSteps ELSE {1}
    /\ p_scheme \in IF prc_op = "fd_price_european_bs" THEN Schemes ELSE {"CN"}
    /\ prc_pc = "call"
    /\ prc_result = NoResult

PricerReturn(r) ==
    /\ prc_pc = "call"
    /\ prc_pc' = "done"
    /\ prc_result' = r
    /\ UNCHANGED prcInputs
    /\ UNCHANGED prcOthers

Call_bs_price ==
    /\ prc_op = "bs_price"
    /\ PricerReturn(BsPrice(p_S, p_K, p_sigma, p_T, p_type))

Call_bs_delta ==
    /\ prc_op = "bs_delta"
    /\ PricerReturn(BsDelta(p_S, p_K, p_sigma, p_T, p_type))

Call_bs_gamma ==
    /\ prc_op = "bs_gamma"
    /\ PricerReturn(AnalyticNoKind(p_S, p_K, p_sigma, p_T))

Call_bs_vega ==
    /\ prc_op = "bs_vega"
    /\ PricerReturn(AnalyticNoKind(p_S, p_K, p_sigma, p_T))

Call_fd_price_european_bs ==
    /\ prc_op = "fd_price_european_bs"
    /\ PricerReturn(FdPrice(p_S, p_K, p_sigma, p_T, p_type, p_M, p_N, p_scheme))

Call_mc_price_european_gbm_terminal ==
    /\ prc_op = "mc_price_european_gbm_terminal"
    /\ PricerReturn(McTerminal(p_S, p_K, p_sigma, p_T, p_type))

PricerNext ==
    \/ Call_bs_price
    \/ Call_bs_delta
    \/ Call_bs_gamma
    \/ Call_bs_vega
    \/ Call_fd_price_european_bs
    \/ Call_mc_price_european_gbm_terminal

PricerIdle ==
    /\ prc_op = "none" /\ p_S = 0 /\ p_K = 0 /\ p_sigma = 0 /\ p_T = 0
    /\ p_type = "call" /\ p_M = 0 /\ p_N = 0 /\ p_scheme = "CN"
    /\ prc_pc = "idle" /\ prc_result = NoResult

(***************************************************************************)
(* Properties of the pricing calls.                                        *)
(***************************************************************************)
InvalidPricingParameters(S, strike, vol, mat, kind) ==
    \/ S <= 0
    \/ strike <= 0
    \/ vol <= 0
    \/ mat <= 0
    \/ kind \notin {"call", "put"}

\* C7: every pricing operation that takes Pricing Parameters fails with
\* the invalid-parameter failure, and returns no price, whenever spot,
\* strike, volatility or maturity is non-positive or the option kind is
\* not recognized.
C7_InvalidParametersRejected ==
    /\ (prc_pc = "done"
            /\ InvalidPricingParameters(p_S, p_K, p_sigma, p_T, p_type)) =>
           /\ prc_result.kind = "raise"
           /\ prc_result.exc = InvalidParameterExc
    /\ (lat_op = "price_european_binomial" /\ lat_pc = "done"
            /\ InvalidPricingParameters(S0, K, sigma_in, T, lat_type)) =>
           /\ lat_result.kind = "raise"
           /\ lat_result.exc = InvalidParameterExc

\* The analytic functions alone do reject every invalid parameter set.
C7_AnalyticRejects ==
    (prc_pc = "done" /\ prc_op \in AnalyticOps
        /\ InvalidPricingParameters(p_S, p_K, p_sigma, p_T, p_type)) =>
           /\ prc_result.kind = "raise"
           /\ prc_result.exc = InvalidParameterExc


(***************************************************************************)
(* pde_fd.py.  Grid values are fixed-point numbers: a whole number of      *)
(* 1/Scale, and every product and quotient rounds to that grid.  A rate is *)
(* 0 or ln 2 per time step, so that exp(-rate * tau) is 1/2 per step.      *)
(***************************************************************************)
FMul(a, b) == (a * b) \div Scale
FDiv(a, b) == (a * Scale) \div b

FdSchemes == {"CN", "cn", "implicit", "explicit"}
FdRates == {0, 1}
\* rate * dt, and exp(-rate * tau) for tau = k * dt.
RateDt(rate) == IF rate = 0 THEN 0 ELSE (11 * Scale) \div 16
ExpNeg(rate, k) == Scale \div (2 ^ (rate * k))

\* pde_fd.py:105: scheme.upper().
Upper(scheme) ==
    CASE scheme \in {"CN", "cn"} -> "CN"
      [] scheme = "implicit" -> "IMPLICIT"
      [] OTHER -> "EXPLICIT"

\* pde_fd.py:106.
SchemeRecognized_any(scheme) == TRUE

SchemeRecognized(scheme) == Upper(scheme) \in {"CN", "IMPLICIT"}

\* pde_fd.py:14-28, with tau = T - t given in time steps.
BoundaryValue(Smax, strike, r, q, tau, kind) ==
    IF kind = "call"
    THEN <<0, FMul(Smax, ExpNeg(q, tau)) - FMul(strike, ExpNeg(r, tau))>>
    ELSE <<FMul(strike, ExpNeg(r, tau)), 0>>

\* pde_fd.py:110-111: the time of row n, as the number of steps to maturity.
TauNow_next(n, Nt) == Nt - (n + 1)

TauNow(n, Nt) == Nt - n
TauNext(n, Nt) == Nt - (n + 1)

\* pde_fd.py:88: S_grid[j].
SGrid(Smax, M, j) == (Smax * j) \div M

\* pde_fd.py:91-94.
TerminalPayoff(Smax, strike, M, kind) ==
    [c \in 1 .. M + 1 |->
        IF kind = "call"
        THEN Max(SGrid(Smax, M, c - 1) - strike, 0)
        ELSE Max(strike - SGrid(Smax, M, c - 1), 0)]

\* pde_fd.py:102-103, times dt: dt * alpha[i] and dt * beta[i].
AlphaDt(vol, i) == (vol * i * i) \div 2
BetaDt(r, q, i) == ((RateDt(r) - RateDt(q)) * i) \div 2

\* pde_fd.py:116-118 and :125-131.  theta = 1 gives the implicit scheme's
\* coefficients, theta = 2 the halved Crank-Nicolson ones.
LowerCoef(vol, r, q, i, theta) == -((AlphaDt(vol, i) - BetaDt(r, q, i)) \div theta)
DiagCoef(vol, r, i, theta) == Scale + ((2 * AlphaDt(vol, i) + RateDt(r)) \div theta)
UpperCoef(vol, r, q, i, theta) == -((AlphaDt(vol, i) + BetaDt(r, q, i)) \div theta)
DiagRhs(vol, r, i) == Scale - ((2 * AlphaDt(vol, i) + RateDt(r)) \div 2)

\* pde_fd.py:44-47 and :49-50: the forward sweep from row i on; cp and dp
\* are c_prime and d_prime so far.
RECURSIVE ThomasForward(_, _, _, _, _, _, _)
ThomasForward(lo, dg, up, rhs, i, cp, dp) ==
    IF i > Len(dg) THEN <<cp, dp>>
    ELSE LET denom == dg[i] - FMul(lo[i - 1], cp[i - 1])
             c == IF i < Len(dg) THEN FDiv(up[i], denom) ELSE 0
             d == FDiv(rhs[i] - FMul(lo[i - 1], dp[i - 1]), denom)
         IN  ThomasForward(lo, dg, up, rhs, i + 1, Append(cp, c), Append(dp, d))

\* pde_fd.py:52-55: x[i .. n], given x[i + 1 .. n].
RECURSIVE ThomasBack(_, _, _, _)
ThomasBack(cp, dp, i, x) ==
    IF i = 0 THEN x
    ELSE ThomasBack(cp, dp, i - 1, <<dp[i] - FMul(cp[i], x[1])>> \o x)

\* pde_fd.py:31-56.  lo and up are the sub- and super-diagonal (one shorter
\* than dg).
ThomasSolver(lo, dg, up, rhs) ==
    IF Len(dg) = 1 THEN <<FDiv(rhs[1], dg[1])>>
    ELSE LET fw == ThomasForward(lo, dg, up, rhs, 2,
                                 <<FDiv(up[1], dg[1])>>, <<FDiv(rhs[1], dg[1])>>)
             n == Len(dg)
         IN  ThomasBack(fw[1], fw[2], n - 1, <<fw[2][n]>>)

\* pde_fd.py:120-122 and :133-139: the right-hand side for the interior
\* nodes 1 .. M - 1; V is the row of the later time (V[c] is column c - 1).
Rhs(V, vol, r, q, M, scheme_u, now, next) ==
    [i \in 1 .. M - 1 |->
        LET theta == IF scheme_u = "IMPLICIT" THEN 1 ELSE 2
            base ==
                IF scheme_u = "IMPLICIT" THEN V[i + 1]
                ELSE FMul(DiagRhs(vol, r, i), V[i + 1])
                     + FMul(-LowerCoef(vol, r, q, i, 2),
                            IF i = 1 THEN next[1] ELSE V[i])
                     + FMul(-UpperCoef(vol, r, q, i, 2),
                            IF i = M - 1 THEN next[2] ELSE V[i + 2])
            left == IF i = 1
                    THEN FMul(LowerCoef(vol, r, q, 1, theta), now[1]) ELSE 0
            right == IF i = M - 1
                     THEN FMul(UpperCoef(vol, r, q, M - 1, theta), now[2]) ELSE 0
        IN  base - left - right]

\* pde_fd.py:146: the columns of the slice V_new[1:M].
SolvedColumns(M) == {c \in 0 .. M : 1 <= c /\ c < M}

\* pde_fd.py:143-146: the new row (column c is element c + 1).
NewRow(now, x, M) ==
    [e \in 1 .. M + 1 |->
        IF e - 1 \in SolvedColumns(M) THEN x[e - 1]
        ELSE IF e = 1 THEN now[1]
        ELSE IF e = M + 1 THEN now[2]
        ELSE 0]

\* pde_fd.py:151: np.interp(S0, S_grid, value_grid[0, :]).
Interp(S, Smax, M, rowvals) ==
    IF S <= 0 THEN rowvals[1]
    ELSE IF S >= Smax THEN rowvals[M + 1]
    ELSE LET j == CHOOSE k \in 0 .. M - 1 :
                      SGrid(Smax, M, k) <= S /\ S < SGrid(Smax, M, k + 1)
             g0 == SGrid(Smax, M, j)
             g1 == SGrid(Smax, M, j + 1)
         IN  rowvals[j + 1]
             + FMul(rowvals[j + 2] - rowvals[j + 1], FDiv(S - g0, g1 - g0))

FdInit ==
    /\ fd_S0 \in {4 * Scale, 5 * Scale}
    /\ fd_K = 4 * Scale
    /\ fd_Smax = 8 * Scale
    /\ fd_r \in FdRates
    /\ fd_q \in FdRates
    /\ fd_vol \in {Scale \div 2, Scale}
    /\ fd_type \in OptionTypes
    /\ fd_M \in 2 .. MaxM
    /\ fd_N \in 0 .. MaxN
    /\ fd_scheme \in FdSchemes
    /\ fd_pc = "start"
    /\ fd_n = 0
    /\ fd_V = <<>>
    /\ value_grid = <<>>
    /\ fd_solved = 0
    /\ fd_written = {}
    /\ fd_result = NoResult

FdFinish(r) ==
    /\ fd_pc' = "done"
    /\ fd_result' = r

\* pde_fd.py:82-107.  Row n of value_grid is element n + 1.
FdStart ==
    /\ UNCHANGED fdOthers
    /\ fd_pc = "start"
    /\ IF fd_M < 3 \/ fd_N < 1
       THEN FdFinish(Raise("ValueError", "grid"))
            /\ UNCHANGED <<fd_n, fd_V, value_grid>>
       ELSE IF fd_type \notin {"call", "put"}
       THEN FdFinish(Raise("ValueError", "option_type"))
            /\ UNCHANGED <<fd_n, fd_V, value_grid>>
       ELSE LET V == TerminalPayoff(fd_Smax, fd_K, fd_M, fd_type)
                grid == [n \in 1 .. fd_N + 1 |->
                            IF n = fd_N + 1 THEN V
                            ELSE [c \in 1 .. fd_M + 1 |-> 0]]
            IN  /\ fd_V' = V
                /\ value_grid' = grid
                /\ IF ~SchemeRecognized(fd_scheme)
                   THEN FdFinish(Raise("ValueError", "scheme"))
                        /\ UNCHANGED fd_n
                   ELSE /\ fd_n' = fd_N
                        /\ fd_pc' = "stepping"
                        /\ UNCHANGED fd_result
    /\ UNCHANGED <<fdInputs, fd_solved, fd_written>>

\* pde_fd.py:109-149, one pass of the loop, for row n = fd_n - 1.
FdTimeStep ==
    /\ UNCHANGED fdOthers
    /\ fd_pc = "stepping"
    /\ fd_n > 0
    /\ LET n == fd_n - 1
           M == fd_M
           scheme_u == Upper(fd_scheme)
           theta == IF scheme_u = "IMPLICIT" THEN 1 ELSE 2
           now == BoundaryValue(fd_Smax, fd_K, fd_r, fd_q,
                                TauNow(n, fd_N), fd_type)
           next == BoundaryValue(fd_Smax, fd_K, fd_r, fd_q,
                                 TauNext(n, fd_N), fd_type)
           lo == [i \in 1 .. M - 1 |-> LowerCoef(fd_vol, fd_r, fd_q, i, theta)]
           dg == [i \in 1 .. M - 1 |-> DiagCoef(fd_vol, fd_r, i, theta)]
           up == [i \in 1 .. M - 1 |-> UpperCoef(fd_vol, fd_r, fd_q, i, theta)]
           rhs == Rhs(fd_V, fd_vol, fd_r, fd_q, M, scheme_u, now, next)
           x == ThomasSolver(Tail(lo), dg, SubSeq(up, 1, M - 2), rhs)
           V_new == NewRow(now, x, M)
       IN  /\ fd_V' = V_new
           /\ value_grid' = [value_grid EXCEPT ![n + 1] = V_new]
           /\ fd_written' = SolvedColumns(M)
           /\ fd_n' = n
    /\ fd_solved' = fd_solved + 1
    /\ UNCHANGED <<fdInputs, fd_pc, fd_result>>

\* pde_fd.py:151-157.
FdReturn ==
    /\ UNCHANGED fdOthers
    /\ fd_pc = "stepping"
    /\ fd_n = 0
    /\ FdFinish(Return("price", Interp(fd_S0, fd_Smax, fd_M, value_grid[1])))
    /\ UNCHANGED <<fdInputs, fd_n, fd_V, value_grid, fd_solved, fd_written>>

FdNext ==
    \/ FdStart
    \/ FdTimeStep
    \/ FdReturn

FdIdle ==
    /\ fd_S0 = 0 /\ fd_K = 0 /\ fd_r = 0 /\ fd_q = 0 /\ fd_vol = 0
    /\ fd_type = "call" /\ fd_Smax = 0 /\ fd_M = 0 /\ fd_N = 0
    /\ fd_scheme = "CN" /\ fd_pc = "idle" /\ fd_n = 0 /\ fd_V = <<>>
    /\ value_grid = <<>> /\ fd_solved = 0 /\ fd_written = {}
    /\ fd_result = NoResult

(***************************************************************************)
(* monte_carlo.py, processes.py, utils.py.  Two callers each make one      *)
(* simulation call; the calls, set_seed and the clock interleave freely.   *)
(* A generator is its seed and the number of variates it has produced; the *)
(* variate it produces next is a fixed function of the two.  A standard    *)
(* normal variate is -1, 0 or 1.  The spot is 4, the strike 4, a variate   *)
(* moves the spot by 2, rates are 0, and a path has 2 steps.               *)
(***************************************************************************)
Callers == {1, 2}
\* seed=None (monte_carlo.py:39), apart from every explicit seed.
None == 0
ExplicitSeeds == {1, 2}
Seeds == ExplicitSeeds \cup {None}
SimOps == {"mc_price_european_gbm_terminal", "mc_price_european_gbm_path_euler",
           "mc_control_variate_with_terminal_asset", "simulate_gbm_path_exact"}
SimParams == [S0 |-> 4, K |-> 4, vol |-> 2, n_steps |-> 2]

\* The i-th variate of the generator seeded with seed.
StreamTable == << <<1, -1, 0, 1, -1, 0>>, <<-1, 0, 1, 1, 0, -1>> >>
Stream(seed, i) == StreamTable[seed][((i - 1) % 6) + 1]

\* np.random.default_rng(seed): seeded by the seed given, or by fresh
\* entropy of the operating system when the seed is None.
NewGenerator_fresh(seed, entropy) == [seed |-> entropy, pos |-> 0]

NewGenerator(seed, entropy) ==
    [seed |-> IF seed = None THEN entropy ELSE seed, pos |-> 0]

\* rng.standard_normal(k): the k variates, and the generator of caller c
\* moved past them.
Variates(g, k) == [i \in 1 .. k |-> Stream(g.seed, g.pos + i)]

Advance_shared(rngs, c, k) ==
    [d \in DOMAIN rngs |-> [rngs[d] EXCEPT !.pos = @ + k]]

Advance(rngs, c, k) == [rngs EXCEPT ![c].pos = @ + k]

\* monte_carlo.py:49: -z_half.
Mirror(zs) == [i \in 1 .. Len(zs) |-> -zs[i]]

\* monte_carlo.py:50.
NeedsPad_never(zs, n) == FALSE

NeedsPad(zs, n) == Len(zs) < n

\* The number of variates the first call of the generator asks for.
FirstDraw(op, n, anti) ==
    CASE op = "mc_price_european_gbm_terminal" ->
             IF anti THEN n \div 2 ELSE n
      [] op = "mc_control_variate_with_terminal_asset" -> n
      [] OTHER -> n * SimParams.n_steps

RECURSIVE RSum(_)
RSum(xs) == IF xs = <<>> THEN R(0) ELSE RAdd(Head(xs), RSum(Tail(xs)))

\* np.mean.
Mean(xs) == RDiv(RSum(xs), R(Len(xs)))

\* monte_carlo.py:25 and :61: np.std(samples, ddof=1) / sqrt(size), held
\* as its square.
StdErrorSq(xs) ==
    LET n == Len(xs)
        m == Mean(xs)
        dev == [i \in 1 .. n |-> RMul(RSub(xs[i], m), RSub(xs[i], m))]
    IN  RDiv(RDiv(RSum(dev), R(n - 1)), R(n))

\* monte_carlo.py:14-19, for a call, and :55-57: the terminal spots.
McPayoff(ST) == [i \in 1 .. Len(ST) |-> R(Max(ST[i] - SimParams.K, 0))]
TerminalSpots(zs) ==
    [i \in 1 .. Len(zs) |-> SimParams.S0 + SimParams.vol * zs[i]]

\* processes.py:97-102 and :66-70: the paths from the n x n_steps matrix of
\* variates, read row by row.
PathsFrom(zs, n) ==
    [p \in 1 .. n |->
        LET z1 == zs[(p - 1) * SimParams.n_steps + 1]
            z2 == zs[(p - 1) * SimParams.n_steps + 2]
        IN  <<SimParams.S0, SimParams.S0 + SimParams.vol * z1,
              SimParams.S0 + SimParams.vol * (z1 + z2)>>]

\* monte_carlo.py:139-142: the control-variate samples and beta.
ControlVariate_unit(ST) ==
    [beta |-> R(1),
     Y_cv |-> [i \in 1 .. Len(ST) |->
                  RSub(McPayoff(ST)[i],
                       RSub(R(ST[i]), R(SimParams.S0)))]]

ControlVariate(ST) ==
    LET n == Len(ST)
        Y == McPayoff(ST)
        X == [i \in 1 .. n |-> R(ST[i])]
        mx == Mean(X)
        my == Mean(Y)
        cov == RSum([i \in 1 .. n |-> RMul(RSub(Y[i], my), RSub(X[i], mx))])
        vr == RSum([i \in 1 .. n |-> RMul(RSub(X[i], mx), RSub(X[i], mx))])
        var_x == RDiv(vr, R(n - 1))
        b == IF RLt(R(0), var_x) THEN RDiv(cov, vr) ELSE R(0)
    IN  [beta |-> b,
         Y_cv |-> [i \in 1 .. n |->
                      RSub(Y[i], RMul(b, RSub(X[i], R(SimParams.S0))))]]

\* The result record of each operation, from the vector of variates zs and
\* the time taken.
SimResult(op, zs, n, anti, runtime) ==
    CASE op = "mc_price_european_gbm_terminal" ->
             LET d == McPayoff(TerminalSpots(zs))
             IN  [kind |-> "return", price |-> Mean(d),
                  std_error |-> StdErrorSq(d), n_paths |-> Len(d),
                  antithetic |-> anti, runtime_seconds |-> runtime]
      [] op = "mc_price_european_gbm_path_euler" ->
             LET gbm == PathsFrom(zs, n)
                 d == McPayoff([p \in 1 .. n |-> gbm[p][3]])
             IN  [kind |-> "return", price |-> Mean(d),
                  std_error |-> StdErrorSq(d), n_paths |-> Len(d),
                  n_steps |-> SimParams.n_steps, runtime_seconds |-> runtime]
      [] op = "mc_control_variate_with_terminal_asset" ->
             LET cv == ControlVariate(TerminalSpots(zs))
             IN  [kind |-> "return", price |-> Mean(cv.Y_cv),
                  std_error |-> StdErrorSq(cv.Y_cv), n_paths |-> n,
                  control_variate_beta |-> cv.beta]
      [] OTHER -> [kind |-> "return", paths |-> PathsFrom(zs, n)]

SimNoResult == [kind |-> "none"]
SimRaise(exc, site) == [kind |-> "raise", exc |-> exc, site |-> site]

SimInit ==
    /\ sim_op \in [Callers -> SimOps]
    /\ sim_seed \in [Callers -> Seeds]
    /\ \E n \in 0 .. MaxPaths : n_paths = [c \in Callers |-> n]
    /\ antithetic \in [Callers -> BOOLEAN]
    /\ \A c \in Callers :
           sim_op[c] # "mc_price_european_gbm_terminal" => ~antithetic[c]
    /\ sim_pc = [c \in Callers |-> "start"]
    /\ rng = [c \in Callers |-> [seed |-> None, pos |-> 0]]
    /\ drawn = [c \in Callers |-> <<>>]
    /\ z = [c \in Callers |-> <<>>]
    /\ sim_start = [c \in Callers |-> 0]
    /\ sim_result = [c \in Callers |-> SimNoResult]
    /\ np_global = None
    /\ clock = 0

\* monte_carlo.py:43-49 and :53, :88 with processes.py:91-95 and :18-24,
\* :131-132, processes.py:60-65: the clock is read (by the two timed
\* pricers), the path generators check their counts, the call builds its
\* generator and calls it for the first time, mirroring when antithetic.
SimBegin(c) ==
    /\ UNCHANGED simOthers
    /\ sim_pc[c] = "start"
    /\ sim_start' = [sim_start EXCEPT ![c] = clock]
    /\ IF sim_op[c] = "mc_price_european_gbm_path_euler" /\ n_paths[c] <= 0
       THEN /\ sim_pc' = [sim_pc EXCEPT ![c] = "done"]
            /\ sim_result' = [sim_result EXCEPT
                                 ![c] = SimRaise("ValueError", "n_paths")]
            /\ UNCHANGED <<rng, drawn, z>>
       ELSE /\ \E entropy \in ExplicitSeeds :
                   LET g == NewGenerator(sim_seed[c], entropy)
                       k == FirstDraw(sim_op[c], n_paths[c], antithetic[c])
                       zs == Variates(g, k)
                   IN  /\ rng' = Advance([rng EXCEPT ![c] = g], c, k)
                       /\ drawn' = [drawn EXCEPT ![c] = zs]
                       /\ z' = [z EXCEPT
                                   ![c] = IF antithetic[c]
                                          THEN zs \o Mirror(zs) ELSE zs]
            /\ sim_pc' = [sim_pc EXCEPT ![c] = "drawn"]
            /\ UNCHANGED sim_result
    /\ UNCHANGED <<simInputs, np_global, clock>>

\* monte_carlo.py:50-51: one further variate when the vector is short.
SimPad(c) ==
    /\ UNCHANGED simOthers
    /\ sim_pc[c] = "drawn"
    /\ antithetic[c]
    /\ NeedsPad(z[c], n_paths[c])
    /\ LET zs == Variates(rng[c], 1)
       IN  /\ rng' = Advance(rng, c, 1)
           /\ drawn' = [drawn EXCEPT ![c] = @ \o zs]
           /\ z' = [z EXCEPT ![c] = @ \o zs]
    /\ UNCHANGED <<simInputs, sim_pc, sim_start, sim_result, np_global, clock>>

\* monte_carlo.py:55-71, :99-112, :133-154, processes.py:66-71.
SimFinish(c) ==
    /\ UNCHANGED simOthers
    /\ sim_pc[c] = "drawn"
    /\ ~(antithetic[c] /\ NeedsPad(z[c], n_paths[c]))
    /\ sim_result' = [sim_result EXCEPT
                         ![c] = SimResult(sim_op[c], z[c], n_paths[c],
                                          antithetic[c], clock - sim_start[c])]
    /\ sim_pc' = [sim_pc EXCEPT ![c] = "done"]
    /\ UNCHANGED <<simInputs, rng, drawn, z, sim_start, np_global, clock>>

\* utils.py:13-16.
SetSeed ==
    /\ UNCHANGED simOthers
    /\ \E seed \in {1} :
           /\ np_global # seed
           /\ np_global' = seed
    /\ UNCHANGED <<simInputs, sim_pc, rng, drawn, z, sim_start, sim_result,
                   clock>>

\* Time passes.
Tick ==
    /\ UNCHANGED simOthers
    /\ clock < MaxClock
    /\ clock' = clock + 1
    /\ UNCHANGED <<simInputs, sim_pc, rng, drawn, z, sim_start, sim_result,
                   np_global>>

SimBeginAny == \E c \in Callers : SimBegin(c)
SimPadAny == \E c \in Callers : SimPad(c)
SimFinishAny == \E c \in Callers : SimFinish(c)

SimNext ==
    \/ SimBeginAny
    \/ SimPadAny
    \/ SimFinishAny
    \/ SetSeed
    \/ Tick

SimIdle ==
    /\ sim_op = <<>> /\ sim_seed = <<>> /\ n_paths = <<>> /\ antithetic = <<>>
    /\ sim_pc = <<>> /\ rng = <<>> /\ drawn = <<>> /\ z = <<>>
    /\ sim_start = <<>> /\ sim_result = <<>> /\ np_global = None /\ clock = 0

(***************************************************************************)
(* hedging.py.  Two invocations of simulate_delta_hedge_on_paths run on    *)
(* the same two paths with the same parameters and their own cost rate.    *)
(* The strike is 2 and a spot is 1 or 3.  Shares are counted in halves and *)
(* money in halves of the price unit.  The analytic delta is a full share  *)
(* in the money, half a share out of the money with two or more steps to   *)
(* maturity, and rounds to zero out of the money one step from maturity.   *)
(***************************************************************************)
Runs == {1, 2}
HedgeStrike == [K |-> 2]
HedgeSpots == {1, 3}

\* black_scholes.py:58-66 and hedging.py:25-47: the delta, in half shares,
\* tau steps from maturity.
HedgeDelta(S, tau, kind) ==
    IF kind = "call"
    THEN IF S > HedgeStrike.K THEN 2 ELSE IF tau >= 2 THEN 1 ELSE 0
    ELSE IF S < HedgeStrike.K THEN -2 ELSE IF tau >= 2 THEN -1 ELSE 0

\* black_scholes.py:92-99: the premium, in half units.
HedgePremium(S, tau, kind) ==
    (IF kind = "call" THEN 2 * Max(S - HedgeStrike.K, 0)
     ELSE 2 * Max(HedgeStrike.K - S, 0))
    + (IF tau >= 2 THEN 1 ELSE 0)

\* hedging.py:17-22, in half units.
HedgePayoff_zero(S, kind) == 0

HedgePayoff(S, kind) ==
    IF kind = "call" THEN 2 * Max(S - HedgeStrike.K, 0)
    ELSE 2 * Max(HedgeStrike.K - S, 0)

\* hedging.py:81, :92, :96: tx_cost_per_dollar * abs(shares) * S.
TradeCost_rebate(tx, shares, S) == -(tx * Abs(shares) * S)

TradeCost(tx, shares, S) == tx * Abs(shares) * S

\* hedging.py:92: trade * S_t, the value of the shares traded.
TradeValue_unpriced(shares, S) == shares

TradeValue(shares, S) == shares * S

\* hedging.py:87.
IsRebalance_at_maturity(st, n_steps, k) == k # 0 /\ st % k = 0

IsRebalance(st, n_steps, k) == st < n_steps /\ st % k = 0

NSteps == Len(paths[1]) - 1
NPaths == Len(paths)

HedgeNoResult == [kind |-> "none"]

RECURSIVE PathSet(_, _)
\* The sequences of n spots.
PathSet(n, spots) ==
    IF n = 0 THEN {<<>>}
    ELSE {Append(p, x) : p \in PathSet(n - 1, spots), x \in spots}

HedgeInit ==
    /\ \E n \in 0 .. MaxSteps, s0 \in HedgeSpots :
           paths \in {<<<<s0>> \o p1, <<s0>> \o p2>> :
                         p1 \in PathSet(n, HedgeSpots),
                         p2 \in PathSet(n, HedgeSpots)}
    /\ rebalance_every_k_steps \in 0 .. 2
    /\ growth \in {1, 2}
    /\ hedge_type \in {"call", "put"}
    /\ tx_cost_per_dollar \in {<<0, 0>>, <<0, 1>>}
    /\ hedge_pc = [r \in Runs |-> "start"]
    /\ hedge_step = [r \in Runs |-> 0]
    /\ delta_pos = [r \in Runs |-> <<>>]
    /\ cash = [r \in Runs |-> <<>>]
    /\ accruals = [r \in Runs |-> 0]
    /\ rebalances = [r \in Runs |-> 0]
    /\ hedge_result = [r \in Runs |-> HedgeNoResult]

\* hedging.py:69-81.
HedgeStart(r) ==
    /\ UNCHANGED hedgeOthers
    /\ hedge_pc[r] = "start"
    /\ IF NSteps = 0
       THEN /\ hedge_pc' = [hedge_pc EXCEPT ![r] = "done"]
            /\ hedge_result' =
                   [hedge_result EXCEPT
                       ![r] = [kind |-> "raise", exc |-> "ZeroDivisionError"]]
            /\ UNCHANGED <<hedge_step, delta_pos, cash>>
       ELSE LET s0 == paths[1][1]
                premium == HedgePremium(s0, NSteps, hedge_type)
                delta0 == HedgeDelta(s0, NSteps, hedge_type)
                c0 == premium - delta0 * s0
                      - TradeCost(tx_cost_per_dollar[r], delta0, s0)
            IN  /\ delta_pos' = [delta_pos EXCEPT
                                    ![r] = [p \in 1 .. NPaths |-> delta0]]
                /\ cash' = [cash EXCEPT ![r] = [p \in 1 .. NPaths |-> c0]]
                /\ hedge_step' = [hedge_step EXCEPT ![r] = 1]
                /\ hedge_pc' = [hedge_pc EXCEPT ![r] = "loop"]
                /\ UNCHANGED hedge_result
    /\ UNCHANGED <<hedgeInputs, accruals, rebalances>>

\* hedging.py:83-93, one pass of the loop, for step = hedge_step[r].
HedgeStep(r) ==
    /\ UNCHANGED hedgeOthers
    /\ hedge_pc[r] = "loop"
    /\ hedge_step[r] <= NSteps
    /\ LET st == hedge_step[r]
           k == rebalance_every_k_steps
           tx == tx_cost_per_dollar[r]
           accrued == [p \in 1 .. NPaths |-> cash[r][p] * growth]
       IN  /\ accruals' = [accruals EXCEPT ![r] = @ + 1]
           /\ IF st < NSteps /\ k = 0
              THEN /\ hedge_pc' = [hedge_pc EXCEPT ![r] = "done"]
                   /\ hedge_result' =
                          [hedge_result EXCEPT
                              ![r] = [kind |-> "raise",
                                      exc |-> "ZeroDivisionError"]]
                   /\ cash' = [cash EXCEPT ![r] = accrued]
                   /\ UNCHANGED <<hedge_step, delta_pos, rebalances>>
              ELSE /\ IF IsRebalance(st, NSteps, k)
                      THEN LET target ==
                                   [p \in 1 .. NPaths |->
                                       HedgeDelta(paths[p][st + 1], NSteps - st,
                                                  hedge_type)]
                               trade == [p \in 1 .. NPaths |->
                                            target[p] - delta_pos[r][p]]
                           IN  /\ cash' =
                                      [cash EXCEPT
                                          ![r] = [p \in 1 .. NPaths |->
                                                     accrued[p]
                                                     - (TradeValue(trade[p],
                                                                   paths[p][st + 1])
                                                        + TradeCost(tx, trade[p],
                                                                    paths[p][st + 1]))]]
                               /\ delta_pos' = [delta_pos EXCEPT ![r] = target]
                               /\ rebalances' = [rebalances EXCEPT ![r] = @ + 1]
                      ELSE /\ cash' = [cash EXCEPT ![r] = accrued]
                           /\ UNCHANGED <<delta_pos, rebalances>>
                   /\ hedge_step' = [hedge_step EXCEPT ![r] = st + 1]
                   /\ UNCHANGED <<hedge_pc, hedge_result>>
    /\ UNCHANGED hedgeInputs

\* hedging.py:95-106.
HedgeFinish(r) ==
    /\ UNCHANGED hedgeOthers
    /\ hedge_pc[r] = "loop"
    /\ hedge_step[r] > NSteps
    /\ LET errors ==
               [p \in 1 .. NPaths |->
                   LET S_T == paths[p][NSteps + 1]
                   IN  cash[r][p] + delta_pos[r][p] * S_T
                       - TradeCost(tx_cost_per_dollar[r], delta_pos[r][p], S_T)
                       - HedgePayoff(S_T, hedge_type)]
       IN  hedge_result' =
               [hedge_result EXCEPT
                   ![r] = [kind |-> "return", errors |-> errors,
                           mean_error |->
                               Mean([p \in 1 .. NPaths |-> R(errors[p])])]]
    /\ hedge_pc' = [hedge_pc EXCEPT ![r] = "done"]
    /\ UNCHANGED <<hedgeInputs, hedge_step, delta_pos, cash, accruals,
                   rebalances>>

HedgeStartAny == \E r \in Runs : HedgeStart(r)
HedgeStepAny == \E r \in Runs : HedgeStep(r)
HedgeFinishAny == \E r \in Runs : HedgeFinish(r)

HedgeNext ==
    \/ HedgeStartAny
    \/ HedgeStepAny
    \/ HedgeFinishAny

HedgeIdle ==
    /\ paths = <<>> /\ rebalance_every_k_steps = 0 /\ growth = 0
    /\ hedge_type = "call" /\ tx_cost_per_dollar = <<>>
    /\ hedge_pc = <<>> /\ hedge_step = <<>> /\ delta_pos = <<>>
    /\ cash = <<>> /\ accruals = <<>> /\ rebalances = <<>>
    /\ hedge_result = <<>>

\* A run is in its loop or has returned, with a rebalancing interval of at
\* least one step.
HedgeRunning(r) ==
    /\ rebalance_every_k_steps >= 1
    /\ \/ hedge_pc[r] = "loop"
       \/ hedge_pc[r] = "done" /\ hedge_result[r].kind = "return"

\* The steps before st at which a rebalance is due.
DueSteps(st) ==
    {s \in 1 .. st - 1 :
        s % rebalance_every_k_steps = 0 /\ s < NSteps}

C17_State ==
    \A r \in Runs :
        HedgeRunning(r) =>
            /\ hedge_step[r] \in 1 .. NSteps + 1
            /\ accruals[r] = hedge_step[r] - 1
            /\ rebalances[r] = Cardinality(DueSteps(hedge_step[r]))
            /\ hedge_pc[r] = "done" =>
                   /\ hedge_step[r] = NSteps + 1
                   /\ rebalances[r] = (NSteps - 1) \div rebalance_every_k_steps

C17_Step ==
    \A r \in Runs :
        (HedgeRunning(r) /\ hedge_step'[r] # hedge_step[r]) =>
            LET st == hedge_step[r]
                due == st % rebalance_every_k_steps = 0 /\ st < NSteps
            IN  /\ hedge_step'[r] = st + 1
                /\ accruals'[r] = accruals[r] + 1
                /\ \A p \in 1 .. NPaths :
                       LET S_t == paths[p][st + 1]
                           target == HedgeDelta(S_t, NSteps - st, hedge_type)
                           trade == target - delta_pos[r][p]
                       IN  IF due
                           THEN /\ delta_pos'[r][p] = target
                                /\ cash'[r][p] =
                                       cash[r][p] * growth
                                       - (trade * S_t
                                          + tx_cost_per_dollar[r] * Abs(trade) * S_t)
                           ELSE /\ delta_pos'[r][p] = delta_pos[r][p]
                                /\ cash'[r][p] = cash[r][p] * growth

\* C17: simulate_delta_hedge_on_paths takes the steps 1..n_steps in order;
\* at each step the cash account accrues interest exactly once, before any
\* trade of that step; the position is rebalanced to the analytic delta at
\* step s exactly when s is a multiple of k and s < n_steps, never at
\* maturity, and is unchanged at every other step; a run makes
\* floor((n_steps - 1) / k) rebalances on each path.
C17_RebalanceSchedule == [](C17_State) /\ [][C17_Step]_vars

\* C17's case: a run over three steps with k = 2 has returned after one
\* rebalance (at step 2; none at step 1, none at maturity).
C17_Witness ==
    \E r \in Runs :
        /\ hedge_pc[r] = "done" /\ hedge_result[r].kind = "return"
        /\ NSteps = 3 /\ rebalance_every_k_steps = 2
        /\ rebalances[r] = 1 /\ accruals[r] = 3

\* Run 1 is free of costs, run 2 pays a positive proportional cost, on the
\* same paths, interval and parameters, and both have returned.
CostPair ==
    /\ tx_cost_per_dollar # <<>>
    /\ tx_cost_per_dollar[1] = 0 /\ tx_cost_per_dollar[2] > 0
    /\ \A r \in Runs : hedge_pc[r] = "done" /\ hedge_result[r].kind = "return"

\* The hedge never holds a share: the initial delta and the target delta of
\* every rebalance are zero on every path.
HoldsNoShares ==
    /\ HedgeDelta(paths[1][1], NSteps, hedge_type) = 0
    /\ \A p \in 1 .. NPaths, st \in 1 .. NSteps - 1 :
           st % rebalance_every_k_steps = 0 =>
               HedgeDelta(paths[p][st + 1], NSteps - st, hedge_type) = 0

\* C18 as amended: on the same paths, rebalancing interval and parameters,
\* the mean hedging error with a proportional cost c > 0 is never higher
\* than with c = 0, and the two are equal when the hedge never holds a
\* share.
C18_CostNeverRaisesMean ==
    CostPair =>
        /\ RLe(hedge_result[2].mean_error, hedge_result[1].mean_error)
        /\ HoldsNoShares =>
               hedge_result[2].mean_error = hedge_result[1].mean_error

\* C18's case: shares are held and traded, and the mean with the cost is
\* lower.
C18_Witness ==
    /\ CostPair
    /\ ~HoldsNoShares
    /\ rebalances[2] >= 1
    /\ RLt(hedge_result[2].mean_error, hedge_result[1].mean_error)

\* C18 as stated: the mean hedging error with a cost c > 0 is strictly
\* lower than with c = 0.
C18_CostStrictlyLowersMean ==
    CostPair =>
        RLt(hedge_result[2].mean_error, hedge_result[1].mean_error)

\* The initial state of a run: every path holds the model delta at inception
\* and the premium less the cost of buying it and the fee on that purchase.
C24_Start ==
    \A r \in Runs :
        (hedge_pc[r] = "start" /\ hedge_pc'[r] = "loop") =>
            LET s0 == paths[1][1]
                delta0 == HedgeDelta(s0, NSteps, hedge_type)
                premium == HedgePremium(s0, NSteps, hedge_type)
            IN  \A p \in 1 .. NPaths :
                    /\ delta_pos'[r][p] = delta0
                    /\ cash'[r][p] =
                           premium - delta0 * s0
                           - tx_cost_per_dollar[r] * Abs(delta0) * s0

\* A pass of the loop: the cash accrues interest; when the position changes
\* or a rebalance is counted, the cash also falls by the value of the trade
\* and by the fee on it, and the position becomes the target delta.
C24_Rebalance ==
    \A r \in Runs :
        (hedge_pc[r] = "loop" /\ hedge_step'[r] = hedge_step[r] + 1) =>
            \A p \in 1 .. NPaths :
                LET S_t == paths[p][hedge_step[r] + 1]
                    trade == delta_pos'[r][p] - delta_pos[r][p]
                IN  /\ cash[r][p] * growth - cash'[r][p] =
                           trade * S_t
                           + tx_cost_per_dollar[r] * Abs(trade) * S_t
                    /\ rebalances'[r] # rebalances[r] =>
                           delta_pos'[r][p] =
                               HedgeDelta(S_t, NSteps - hedge_step[r],
                                          hedge_type)
                    /\ rebalances'[r] = rebalances[r] =>
                           /\ trade = 0
                           /\ cash'[r][p] = cash[r][p] * growth

\* The maturity of a run: the error of a path is the cash plus the position
\* at the terminal spot, less the fee for liquidating it, less the payoff;
\* computing it changes neither the cash nor the position.
C24_Maturity ==
    /\ \A r \in Runs :
           (hedge_pc[r] = "done" /\ hedge_result[r].kind = "return") =>
               \A p \in 1 .. NPaths :
                   LET S_T == paths[p][NSteps + 1]
                       payoff == IF hedge_type = "call"
                                 THEN 2 * Max(S_T - HedgeStrike.K, 0)
                                 ELSE 2 * Max(HedgeStrike.K - S_T, 0)
                   IN  hedge_result[r].errors[p] =
                           cash[r][p] + delta_pos[r][p] * S_T
                           - tx_cost_per_dollar[r] * Abs(delta_pos[r][p]) * S_T
                           - payoff

C24_Return ==
    \A r \in Runs :
        (hedge_pc[r] = "loop" /\ hedge_pc'[r] = "done"
         /\ hedge_result'[r].kind = "return") =>
            /\ cash'[r] = cash[r]
            /\ delta_pos'[r] = delta_pos[r]

\* C24: on every path of simulate_delta_hedge_on_paths, the run starts with
\* the model delta at inception and cash = premium - delta0*S0
\* - c*|delta0|*S0; at each rebalance, with trade = target - current, the
\* cash falls by trade*S_t + c*|trade|*S_t and the position becomes the
\* target; at maturity error = cash + delta*S_T - c*|delta|*S_T
\* - payoff(S_T); nothing else changes the cash but the accrual of interest.
C24_HedgeState ==
    /\ [](C24_Maturity)
    /\ [][C24_Start /\ C24_Rebalance /\ C24_Return]_vars

\* C24's case: a run that pays costs has returned after a rebalance that
\* traded shares at a fee, with an option that ends in the money on a path.
C24_Witness ==
    \E r \in Runs :
        /\ hedge_pc[r] = "done" /\ hedge_result[r].kind = "return"
        /\ tx_cost_per_dollar[r] = 1
        /\ rebalances[r] >= 1
        /\ \E p \in 1 .. NPaths :
               /\ delta_pos[r][p] # HedgeDelta(paths[1][1], NSteps, hedge_type)
               /\ HedgePayoff(paths[p][NSteps + 1], hedge_type) > 0

\* The value of the hedge portfolio of path p in run r at the spot S.
PortfolioValue(r, p, S) == cash[r][p] + delta_pos[r][p] * S

\* A pass of the loop of a run without costs at step st: at the spot of the
\* step the portfolio is worth what the accrued cash and the old position
\* are worth, whether or not the step rebalances, so that the value has
\* changed since the previous step by the interest on the cash and by the
\* move of the spot on the shares held.
C30_Step ==
    \A r \in Runs :
        (hedge_pc[r] = "loop" /\ tx_cost_per_dollar[r] = 0
         /\ hedge_step'[r] = hedge_step[r] + 1) =>
            \A p \in 1 .. NPaths :
                LET S_prev == paths[p][hedge_step[r]]
                    S_t == paths[p][hedge_step[r] + 1]
                IN  /\ cash'[r][p] + delta_pos'[r][p] * S_t =
                           cash[r][p] * growth + delta_pos[r][p] * S_t
                    /\ cash'[r][p] + delta_pos'[r][p] * S_t
                       - PortfolioValue(r, p, S_prev) =
                           cash[r][p] * (growth - 1)
                           + delta_pos[r][p] * (S_t - S_prev)

\* The error of a path of a returned run without costs is the terminal
\* value of its portfolio less the payoff.
C30_Error ==
    \A r \in Runs :
        (hedge_pc[r] = "done" /\ hedge_result[r].kind = "return"
         /\ tx_cost_per_dollar[r] = 0) =>
            \A p \in 1 .. NPaths :
                hedge_result[r].errors[p] =
                    PortfolioValue(r, p, paths[p][NSteps + 1])
                    - HedgePayoff(paths[p][NSteps + 1], hedge_type)

\* C30: with zero transaction cost a rebalance leaves the portfolio value
\* cash + delta*S_t of every path unchanged; across the steps the value
\* changes only through the accrual of interest on the cash and the moves
\* of the spot; the error of a path is its terminal portfolio value less the
\* payoff.
C30_SelfFinancing == [](C30_Error) /\ [][C30_Step]_vars

\* C30's case: a run without costs has returned after a rebalance that
\* changed the position of a path at a spot other than the initial one, with
\* interest accruing.
C30_Witness ==
    \E r \in Runs :
        /\ hedge_pc[r] = "done" /\ hedge_result[r].kind = "return"
        /\ tx_cost_per_dollar[r] = 0
        /\ growth = 2
        /\ rebalances[r] >= 1
        /\ \E p \in 1 .. NPaths :
               /\ delta_pos[r][p] # HedgeDelta(paths[1][1], NSteps, hedge_type)
               /\ paths[p][2] # paths[p][1]

(***************************************************************************)
(* portfolio_overlay.py.  Amounts are multiples of 1/Scale and every       *)
(* product and quotient is rounded to the nearest multiple, as a floating  *)
(* point operation rounds to the nearest representable number.             *)
(***************************************************************************)
RoundMul(a, b) == (2 * a * b + Scale) \div (2 * Scale)
RoundDiv(a, b) == (2 * a * Scale + b) \div (2 * b)

\* black_scholes.py:51-55: the put premium, intrinsic value plus time value.
PutPremium(S, strike) == Max(strike - S, 0) + 3

OvNoResult == [kind |-> "none"]
OvRaise(exc) == [kind |-> "raise", exc |-> exc]

OverlayInit ==
    /\ ov_S0 \in {0, 2 * Scale, 4 * Scale}
    /\ K_put \in {3 * Scale, 6 * Scale}
    /\ T_put \in {1, 2}
    /\ T_sim \in {1, 2}
    /\ notional \in {4 * Scale, 8 * Scale}
    /\ premium_budget_fraction \in {0, Scale \div 4, (2 * Scale) \div 3, Scale}
    /\ ov_n_steps \in {0, 2}
    /\ ov_path \in {<<a, b>> : a \in {2 * Scale, 4 * Scale},
                                b \in {2 * Scale, 4 * Scale}}
    /\ ov_pc = "start"
    /\ ov_result = OvNoResult

\* portfolio_overlay.py:36-80.
ProtectivePutOverlay ==
    /\ UNCHANGED ovOthers
    /\ ov_pc = "start"
    /\ ov_pc' = "done"
    /\ ov_result' =
           IF T_put > T_sim THEN OvRaise("ValueError")
           ELSE IF ov_n_steps <= 0 THEN OvRaise("ValueError")
           ELSE IF ov_S0 = 0 THEN OvRaise("ZeroDivisionError")
           ELSE
             LET units_underlying == RoundDiv(notional, ov_S0)
                 put_premium == PutPremium(ov_S0, K_put)
                 budget == RoundMul(premium_budget_fraction, notional)
                 hedge_units ==
                     Min(units_underlying,
                         IF put_premium > 0 THEN RoundDiv(budget, put_premium)
                         ELSE 0)
                 unhedged_terminal == RoundMul(units_underlying, ov_path[2])
                 put_payoff == RoundMul(hedge_units, Max(K_put - ov_path[1], 0))
                 premium_paid == RoundMul(hedge_units, put_premium)
                 hedged_terminal == unhedged_terminal - premium_paid + put_payoff
             IN  [kind |-> "return",
                  unhedged_returns |-> RoundDiv(unhedged_terminal, notional) - Scale,
                  hedged_returns |-> RoundDiv(hedged_terminal, notional) - Scale,
                  hedge_units |-> hedge_units,
                  premium_paid |-> premium_paid,
                  premium_budget |-> budget,
                  put_premium |-> put_premium,
                  units_underlying |-> units_underlying,
                  coverage_ratio |->
                      IF units_underlying > 0
                      THEN RoundDiv(hedge_units, units_underlying) ELSE 0]
    /\ UNCHANGED ovInputs

OvNext == ProtectivePutOverlay

OvIdle ==
    /\ ov_S0 = 0 /\ K_put = 0 /\ T_put = 0 /\ T_sim = 0 /\ notional = 0
    /\ premium_budget_fraction = 0 /\ ov_n_steps = 0 /\ ov_path = <<>>
    /\ ov_pc = "idle" /\ ov_result = <<>>

\* C19: with a positive notional, spot and put premium and a non-negative
\* budget fraction, protective_put_overlay_simulation returns a premium
\* paid of at most premium_budget_fraction * notional and hedge units of at
\* most notional / S0 (a coverage ratio of at most 1).
C19_OverlayWithinBudget ==
    (/\ ov_pc = "done" /\ ov_result.kind = "return"
     /\ notional > 0 /\ ov_S0 > 0 /\ ov_result.put_premium > 0
     /\ premium_budget_fraction >= 0) =>
        /\ ov_result.premium_paid <= ov_result.premium_budget
        /\ ov_result.hedge_units <= ov_result.units_underlying
        /\ ov_result.coverage_ratio <= Scale

\* The part of C19 that min() secures: the hedge never covers more than the
\* units held.
C19_CoverageAtMostOne ==
    (ov_pc = "done" /\ ov_result.kind = "return") =>
        /\ ov_result.hedge_units <= ov_result.units_underlying
        /\ ov_result.coverage_ratio <= Scale

(***************************************************************************)
(* stoch_vol.py.  Variances are integers, a step lasts one time unit, the  *)
(* long-run variance is 1, r = q, and the normal variates are -1, 0 or 1.  *)
(* The spot matrix holds twice the logarithm of the spot over S0.          *)
(***************************************************************************)
HestonParams == [theta |-> 1]

\* np.sqrt on the integers: the integer part of the root of v >= 0.
ISqrt(v) == CHOOSE k \in 0 .. v : k * k <= v /\ v < (k + 1) * (k + 1)

\* stoch_vol.py:48.
VPos(v) == Max(v, 0)

\* stoch_vol.py:50.
FloorVariance_none(v) == v

FloorVariance(v) == Max(v, 0)

\* stoch_vol.py:36-40: z1 and z2 are consecutive draws of the generator,
\* each of shape (n_paths, n_steps).
Shocks(seed, n, m, block) ==
    [p \in 1 .. n |->
        [t \in 1 .. m |-> Stream(seed, block * n * m + (p - 1) * m + t)]]

HvNoResult == [kind |-> "none"]

HestonInit ==
    /\ hv_V0 \in {-4, 0, 4}
    /\ kappa \in {0, 1}
    /\ xi \in {0, 2}
    /\ rho \in {-1, 0, 1, 2}
    /\ hv_n_paths \in {1, 2}
    /\ hv_n_steps \in 0 .. MaxSteps
    /\ hv_seed \in ExplicitSeeds
    /\ dW1 = <<>> /\ dW2 = <<>> /\ hv_t = 0
    /\ hv_S = <<>> /\ hv_V = <<>> /\ sqrt_args = {}
    /\ hv_pc = "start"
    /\ hv_result = HvNoResult

\* stoch_vol.py:30-45.
HestonStart ==
    /\ UNCHANGED hvOthers
    /\ hv_pc = "start"
    /\ IF ~(-1 <= rho /\ rho <= 1)
       THEN /\ hv_pc' = "done"
            /\ hv_result' = [kind |-> "raise", exc |-> "ValueError"]
            /\ UNCHANGED <<dW1, dW2, hv_S, hv_V>>
       ELSE IF hv_n_steps = 0
       THEN /\ hv_pc' = "done"
            /\ hv_result' = [kind |-> "raise", exc |-> "ZeroDivisionError"]
            /\ UNCHANGED <<dW1, dW2, hv_S, hv_V>>
       ELSE LET z1 == Shocks(hv_seed, hv_n_paths, hv_n_steps, 0)
                z2 == Shocks(hv_seed, hv_n_paths, hv_n_steps, 1)
            IN  /\ dW1' = z1
                /\ dW2' = [p \in 1 .. hv_n_paths |->
                              [t \in 1 .. hv_n_steps |->
                                  rho * z1[p][t]
                                  + ISqrt(Max(1 - rho * rho, 0)) * z2[p][t]]]
                /\ hv_S' = [p \in 1 .. hv_n_paths |-> <<0>>]
                /\ hv_V' = [p \in 1 .. hv_n_paths |-> <<hv_V0>>]
                /\ hv_pc' = "loop"
                /\ UNCHANGED hv_result
    /\ UNCHANGED <<hvInputs, hv_t, sqrt_args>>

\* stoch_vol.py:47-52, one pass of the loop, for t = hv_t.
HestonStep ==
    /\ UNCHANGED hvOthers
    /\ hv_pc = "loop"
    /\ hv_t < hv_n_steps
    /\ LET v_pos == [p \in 1 .. hv_n_paths |-> VPos(hv_V[p][hv_t + 1])]
           V_next == [p \in 1 .. hv_n_paths |->
                         FloorVariance(
                             hv_V[p][hv_t + 1]
                             + kappa * (HestonParams.theta - v_pos[p])
                             + xi * ISqrt(v_pos[p]) * dW2[p][hv_t + 1])]
           S_next == [p \in 1 .. hv_n_paths |->
                         hv_S[p][hv_t + 1] - v_pos[p]
                         + 2 * ISqrt(v_pos[p]) * dW1[p][hv_t + 1]]
       IN  /\ hv_V' = [p \in 1 .. hv_n_paths |-> Append(hv_V[p], V_next[p])]
           /\ hv_S' = [p \in 1 .. hv_n_paths |-> Append(hv_S[p], S_next[p])]
           /\ sqrt_args' = sqrt_args \cup {v_pos[p] : p \in 1 .. hv_n_paths}
    /\ hv_t' = hv_t + 1
    /\ UNCHANGED <<hvInputs, dW1, dW2, hv_pc, hv_result>>

\* stoch_vol.py:47, :54.
HestonReturn ==
    /\ UNCHANGED hvOthers
    /\ hv_pc = "loop"
    /\ hv_t >= hv_n_steps
    /\ hv_pc' = "done"
    /\ hv_result' = [kind |-> "return", S |-> hv_S]
    /\ UNCHANGED <<hvInputs, dW1, dW2, hv_t, hv_S, hv_V, sqrt_args>>

HvNext ==
    \/ HestonStart
    \/ HestonStep
    \/ HestonReturn

HvIdle ==
    /\ hv_V0 = 0 /\ kappa = 0 /\ xi = 0 /\ rho = 0 /\ hv_n_paths = 0
    /\ hv_n_steps = 0 /\ hv_seed = 0 /\ dW1 = <<>> /\ dW2 = <<>> /\ hv_t = 0
    /\ hv_S = <<>> /\ hv_V = <<>> /\ sqrt_args = {}
    /\ hv_pc = "idle" /\ hv_result = <<>>

\* The columns of the variance matrix written so far, of every path.
StoredVariance(cols) ==
    {hv_V[p][c + 1] : p \in DOMAIN hv_V, c \in cols \cap (0 .. hv_t)}

\* C20 as amended: in the two-factor (Heston-lite) path generator no stored
\* variance of the columns 1..n_steps is negative, for every path, any
\* initial variance V0 and any parameters; column 0 holds V0 as given; and
\* the spot update never takes the square root of a negative variance.
C20_VarianceFloored ==
    hv_pc \in {"loop", "done"} =>
        /\ \A v \in StoredVariance(1 .. hv_n_steps) : v >= 0
        /\ \A v \in StoredVariance({0}) : v = hv_V0
        /\ \A a \in sqrt_args : a >= 0

\* C20's case: a run from a negative V0 has returned after two or more
\* steps, during which a positive variance was stored and roots were taken.
C20_Witness ==
    /\ hv_pc = "done" /\ hv_result.kind = "return"
    /\ hv_V0 < 0 /\ hv_n_steps >= 2
    /\ \E v \in StoredVariance(1 .. hv_n_steps) : v > 0
    /\ sqrt_args # {}

\* C20 as stated: for every path and every column 0..n_steps the stored
\* variance is >= 0, for any V0, and no root of a negative variance is
\* taken.
C20_VarianceFlooredEverywhere ==
    hv_pc \in {"loop", "done"} =>
        /\ \A v \in StoredVariance(0 .. hv_n_steps) : v >= 0
        /\ \A a \in sqrt_args : a >= 0

(***************************************************************************)
(* Put-call parity (black_scholes.py:83-89, fx_options.py:55-61).          *)
(* A double is modelled by a number with a five-bit mantissa: an integer   *)
(* count of sixteenths, exact below 32 and rounded to the nearest multiple *)
(* of its spacing above.  The amount 1.0 is 16.                            *)
(***************************************************************************)
RECURSIVE Spacing(_)
\* The distance between neighbouring representable numbers at magnitude n.
Spacing(n) == IF n < 32 THEN 1 ELSE 2 * Spacing(n \div 2)

\* The representable number nearest to num / den, den > 0.
FlDiv(num, den) ==
    LET k == Spacing(Abs(num) \div den)
        q == ((2 * Abs(num) + k * den) \div (2 * k * den)) * k
    IN  IF num < 0 THEN -q ELSE q

\* A sum or difference of two representable numbers, rounded.
Fl(n) == FlDiv(n, 1)

\* scipy's norm.cdf at -d, in eighths, from norm.cdf at d.
CdfNeg_same(c) == c

CdfNeg(c) == 8 - c

\* black_scholes.py:44-48, fx_options.py:24-28.
CallPrice(S, strike, dq, dr, c1, c2) ==
    Fl(FlDiv(FlDiv(S * dq, 8) * c1, 8) - FlDiv(FlDiv(strike * dr, 8) * c2, 8))

\* black_scholes.py:51-55, fx_options.py:31-35.
PutPrice(S, strike, dq, dr, c1, c2) ==
    Fl(FlDiv(FlDiv(strike * dr, 8) * CdfNeg(c2), 8)
       - FlDiv(FlDiv(S * dq, 8) * CdfNeg(c1), 8))

\* test_black_scholes.py:10, test_fx.py:10: 1e-10, a quarter of 1.0 here.
ParityTol == 4

ParNoResult == [kind |-> "none"]

ParityInit ==
    /\ par_op \in {"put_call_parity_check", "gk_put_call_parity_residual"}
    /\ par_S \in {0, 16, 24, 640}
    /\ par_K \in {0, 16, 20, 768}
    /\ par_dq \in {7, 8}
    /\ par_dr \in {7, 8}
    /\ cdf_d1 \in 1 .. 7
    /\ cdf_d2 \in 1 .. cdf_d1
    \* d1 and d2 follow from the arguments: neither exact price is negative
    /\ par_S * par_dq * cdf_d1 >= par_K * par_dr * cdf_d2
    /\ par_K * par_dr * (8 - cdf_d2) >= par_S * par_dq * (8 - cdf_d1)
    /\ par_sigma \in {0, 1}
    /\ par_T \in {0, 1}
    /\ par_pc = "call"
    /\ par_result = ParNoResult

\* black_scholes.py:83-89 and fx_options.py:55-61, with the validation of
\* d1_d2 (black_scholes.py:11-19) and _d1_d2 (fx_options.py:13-16).
ParityResidual ==
    /\ UNCHANGED parOthers
    /\ par_pc = "call"
    /\ par_pc' = "done"
    /\ par_result' =
           IF par_S <= 0 \/ par_K <= 0 \/ par_sigma <= 0 \/ par_T <= 0
           THEN [kind |-> "raise", exc |-> "ValueError"]
           ELSE LET call == CallPrice(par_S, par_K, par_dq, par_dr, cdf_d1, cdf_d2)
                    put == PutPrice(par_S, par_K, par_dq, par_dr, cdf_d1, cdf_d2)
                    rhs == Fl(FlDiv(par_S * par_dq, 8) - FlDiv(par_K * par_dr, 8))
                IN  [kind |-> "return", call |-> call, put |-> put,
                     residual |-> Fl(Fl(call - put) - rhs)]
    /\ UNCHANGED parInputs

ParNext == ParityResidual

ParIdle ==
    /\ par_op = "none" /\ par_S = 0 /\ par_K = 0 /\ par_dq = 0 /\ par_dr = 0
    /\ cdf_d1 = 0 /\ cdf_d2 = 0 /\ par_sigma = 0 /\ par_T = 0
    /\ par_pc = "idle" /\ par_result = <<>>

ParityReturned == par_pc = "done" /\ par_result.kind = "return"

\* The larger of 1.0, the discounted spot and the discounted strike.
ParityMagnitude ==
    Max(16, Max(FlDiv(par_S * par_dq, 8), FlDiv(par_K * par_dr, 8)))

\* C22 as amended: for every valid parameter set the parity residual
\* computed from the analytic call and put prices is within 1e-10 times the
\* larger of 1, S e^{-qT} and K e^{-rT} of zero, for the Black-Scholes and
\* the Garman-Kohlhagen prices alike.
C22_ParityRelative ==
    ParityReturned =>
        16 * Abs(par_result.residual) <= ParityTol * ParityMagnitude

\* C22's case: a residual that is not zero and within the tolerance.
C22_Witness ==
    /\ ParityReturned
    /\ par_op = "gk_put_call_parity_residual"
    /\ par_result.residual # 0
    /\ Abs(par_result.residual) < ParityTol

\* C22 as stated: for every valid parameter set the residual is within
\* 1e-10 of zero.
C22_ParityAbsolute ==
    ParityReturned => Abs(par_result.residual) < ParityTol

(***************************************************************************)
(* pde_fd.py:31-56.  _thomas_solver alone, on systems of up to MaxSize     *)
(* rows drawn from small sets of fixed-point coefficients, one row of the  *)
(* forward sweep or of the back substitution at a time.  The systems drawn *)
(* are those whose pivots, as the sweep computes them, are not zero.       *)
(***************************************************************************)
ThomasDiag == {1, Scale, 3 * Scale}
ThomasLower == {-Scale, Scale}
ThomasUpper == {Scale}
ThomasRhs == {0, Scale}

\* pde_fd.py:45 and :49: denom and denom_last.
Denom_unreduced(dg_i, lo_i, cp) == dg_i

Denom(dg_i, lo_i, cp) == dg_i - FMul(lo_i, cp)

\* The pivots of the sweep from row i on: diag[0] and every denom, up to
\* the first that is zero.
RECURSIVE PivotsFrom(_, _, _, _, _, _)
PivotsFrom(lo, dg, up, i, cp, acc) ==
    IF i > Len(dg) THEN acc
    ELSE LET den == dg[i] - FMul(lo[i - 1], cp)
         IN  IF den = 0 THEN Append(acc, 0)
             ELSE PivotsFrom(lo, dg, up, i + 1,
                             IF i < Len(dg) THEN FDiv(up[i], den) ELSE 0,
                             Append(acc, den))

Pivots(lo, dg, up) ==
    IF dg[1] = 0 THEN <<0>>
    ELSE IF Len(dg) = 1 THEN <<dg[1]>>
    ELSE PivotsFrom(lo, dg, up, 2, FDiv(up[1], dg[1]), <<dg[1]>>)

ThomasInit ==
    /\ \E n \in 1 .. MaxSize :
           /\ th_diag \in [1 .. n -> ThomasDiag]
           /\ th_lower \in [1 .. n - 1 -> ThomasLower]
           /\ th_upper \in [1 .. n - 1 -> ThomasUpper]
           /\ th_rhs \in [1 .. n -> ThomasRhs]
    /\ \A i \in DOMAIN Pivots(th_lower, th_diag, th_upper) :
           Pivots(th_lower, th_diag, th_upper)[i] # 0
    /\ c_prime = <<>> /\ d_prime = <<>> /\ th_x = <<>> /\ th_i = 0
    /\ th_visits = <<>> /\ th_pc = "start" /\ th_result = <<>>

\* pde_fd.py:34-42: the system of one row, or row 0 of the forward sweep.
ThomasBegin ==
    /\ UNCHANGED thOthers
    /\ th_pc = "start"
    /\ IF Len(th_diag) = 1
       THEN /\ th_result' = <<FDiv(th_rhs[1], th_diag[1])>>
            /\ th_pc' = "done"
            /\ UNCHANGED <<c_prime, d_prime, th_i, th_visits>>
       ELSE /\ c_prime' = <<FDiv(th_upper[1], th_diag[1])>>
            /\ d_prime' = <<FDiv(th_rhs[1], th_diag[1])>>
            /\ th_i' = 2
            /\ th_visits' = <<<<"forward", 0>>>>
            /\ th_pc' = "forward"
            /\ UNCHANGED th_result
    /\ UNCHANGED <<thInputs, th_x>>

\* pde_fd.py:44-50 and :52-53: row th_i of the forward sweep (row th_i - 1
\* of the code); after the last row, x[-1] is set.
ThomasEliminate ==
    /\ UNCHANGED thOthers
    /\ th_pc = "forward"
    /\ LET i == th_i
           n == Len(th_diag)
           den == Denom(th_diag[i], th_lower[i - 1], c_prime[i - 1])
           d == FDiv(th_rhs[i] - FMul(th_lower[i - 1], d_prime[i - 1]), den)
       IN  /\ d_prime' = Append(d_prime, d)
           /\ IF i < n
              THEN /\ c_prime' = Append(c_prime, FDiv(th_upper[i], den))
                   /\ th_i' = i + 1
                   /\ th_visits' = Append(th_visits, <<"forward", i - 1>>)
                   /\ UNCHANGED <<th_x, th_pc>>
              ELSE /\ th_x' = <<d>>
                   /\ th_i' = n - 1
                   /\ th_visits' = th_visits \o <<<<"forward", i - 1>>,
                                                  <<"back", n - 1>>>>
                   /\ th_pc' = "back"
                   /\ UNCHANGED c_prime
    /\ UNCHANGED <<thInputs, th_result>>

\* pde_fd.py:54-56: row th_i of the back substitution (row th_i - 1 of the
\* code); after row 0, x is returned.
ThomasSubstitute ==
    /\ UNCHANGED thOthers
    /\ th_pc = "back"
    /\ LET i == th_i
           x == <<d_prime[i] - FMul(c_prime[i], th_x[1])>> \o th_x
       IN  /\ th_x' = x
           /\ th_visits' = Append(th_visits, <<"back", i - 1>>)
           /\ IF i > 1
              THEN /\ th_i' = i - 1
                   /\ UNCHANGED <<th_pc, th_result>>
              ELSE /\ th_pc' = "done"
                   /\ th_result' = x
                   /\ UNCHANGED th_i
    /\ UNCHANGED <<thInputs, c_prime, d_prime>>

ThNext ==
    \/ ThomasBegin
    \/ ThomasEliminate
    \/ ThomasSubstitute

\* Row i of A x - rhs, in units of 1/Scale^2.
Residual(x, i) ==
    th_diag[i] * x[i]
    + (IF i > 1 THEN th_lower[i - 1] * x[i - 1] ELSE 0)
    + (IF i < Len(th_diag) THEN th_upper[i] * x[i + 1] ELSE 0)
    - Scale * th_rhs[i]

\* x solves the system up to the rounding of the sweep: two units of the
\* grid for each row.
SolvesSystem(x) ==
    \A i \in 1 .. Len(th_diag) :
        Abs(Residual(x, i)) <= 2 * Len(th_diag) * Scale

\* Every row's diagonal entry is at least as large as its two neighbours
\* together.
DiagonallyDominant ==
    \A i \in 1 .. Len(th_diag) :
        Abs(th_diag[i]) >=
            (IF i > 1 THEN Abs(th_lower[i - 1]) ELSE 0)
            + (IF i < Len(th_diag) THEN Abs(th_upper[i]) ELSE 0)

\* The rows of a system of n >= 2 rows in the order the claim gives: the
\* forward sweep over rows 0 .. n - 1, then the back substitution from row
\* n - 1 to row 0.
PassOrder(n) ==
    [j \in 1 .. 2 * n |->
        IF j <= n THEN <<"forward", j - 1>> ELSE <<"back", 2 * n - j>>]

C25_State ==
    th_pc # "idle" =>
        /\ \A j \in 1 .. Len(th_visits) :
               /\ j <= 2 * Len(th_diag)
               /\ th_visits[j] = PassOrder(Len(th_diag))[j]
        /\ th_pc = "done" =>
               /\ th_result = ThomasSolver(th_lower, th_diag, th_upper, th_rhs)
               /\ Len(th_result) = Len(th_diag)
               /\ Len(th_diag) >= 2 => th_visits = PassOrder(Len(th_diag))
               /\ DiagonallyDominant => SolvesSystem(th_result)

\* C25 as amended: _thomas_solver, given a tridiagonal system of size n >= 1
\* with non-zero pivots that is diagonally dominant by rows, returns the x
\* that solves A x = rhs up to rounding; for every system with non-zero
\* pivots it computes x by one forward elimination pass over the rows
\* 0 .. n - 1 in increasing order followed by one back substitution from the
\* last row to the first, and leaves its inputs unchanged.
C25_ThomasSolves == [](C25_State) /\ [][thInputs' = thInputs]_vars

\* C25's case: a diagonally dominant system of three rows, with a
\* right-hand side and a solution that are not zero, has been solved in the
\* six row visits.
C25_Witness ==
    /\ th_pc = "done"
    /\ Len(th_diag) = 3
    /\ DiagonallyDominant
    /\ Len(th_visits) = 6
    /\ \E i \in 1 .. 3 : th_result[i] # 0 /\ th_rhs[i] # 0

\* C25 as stated: for every system with non-zero pivots the x returned
\* solves A x = rhs.
C25_SolvesWithNonZeroPivots == th_pc = "done" => SolvesSystem(th_result)

(***************************************************************************)
(* monte_carlo.py:131-145.  The estimator of                               *)
(* mc_control_variate_with_terminal_asset on every sample of up to         *)
(* MaxPaths variates, each -1, 0, 1 or 2, in exact fractions.              *)
(***************************************************************************)
CvVariates == {-1, 0, 1, 2}

CvInit ==
    /\ \E n \in 0 .. MaxPaths :
           \E zs \in [1 .. n -> CvVariates] : cv_ST = TerminalSpots(zs)
    /\ cv_pc = "start"
    /\ cv_result = SimNoResult

\* monte_carlo.py:135-155.
ControlVariateEstimate ==
    /\ UNCHANGED cvOthers
    /\ cv_pc = "start"
    /\ LET cv == ControlVariate(cv_ST)
       \* the record returned, and with it the local Y_cv
       IN  cv_result' =
               [kind |-> "return", price |-> Mean(cv.Y_cv),
                std_error |-> StdErrorSq(cv.Y_cv), n_paths |-> Len(cv_ST),
                control_variate_beta |-> cv.beta, Y_cv |-> cv.Y_cv]
    /\ cv_pc' = "done"
    /\ UNCHANGED cv_ST

CvNext == ControlVariateEstimate

\* The sample variance (ddof = 1) of xs.
SampleVariance(xs) ==
    LET n == Len(xs)
        m == Mean(xs)
    IN  RDiv(RSum([i \in 1 .. n |-> RMul(RSub(xs[i], m), RSub(xs[i], m))]),
             R(n - 1))

\* C26: in mc_control_variate_with_terminal_asset, with b = Cov(Y, X) /
\* Var(X) computed from the same sample, the sample variance of the adjusted
\* values Y - b (X - E[X]) is never larger than the sample variance of the
\* raw discounted payoffs Y, for every sample (of two or more paths, for
\* which the sample variance is defined; a smaller sample is left as it is).
C26_VarianceNotLarger ==
    cv_pc = "done" =>
        LET Y == McPayoff(cv_ST)
        IN  IF Len(cv_ST) >= 2
            THEN RLe(SampleVariance(cv_result.Y_cv), SampleVariance(Y))
            ELSE cv_result.Y_cv = Y

\* C26's case: a sample of three paths on which the payoff varies, b is not
\* zero and the adjusted values have a strictly smaller variance.
C26_Witness ==
    /\ cv_pc = "done"
    /\ Len(cv_ST) = 3
    /\ cv_result.control_variate_beta # R(0)
    /\ RLt(SampleVariance(cv_result.Y_cv), SampleVariance(McPayoff(cv_ST)))
    /\ RLt(R(0), SampleVariance(cv_result.Y_cv))

(***************************************************************************)
(* hedging.py:169-220.  hedging_experiment_grid generates one array of     *)
(* paths and passes it to simulate_delta_hedge_on_paths for every pair of  *)
(* its two lists, in order.  A call works on three arrays: the paths it is *)
(* given and the cash and position it allocates; every statement that      *)
(* writes into an array in place is a store into one of them.  Paths have  *)
(* two steps and come from the generator of the simulation calls; strike,  *)
(* delta and premium are those of the hedge model.                         *)
(***************************************************************************)
GridIntervals == {1, 2}
GridCosts == {0, 1}
GridLists(S) == UNION {[1 .. n -> S] : n \in 1 .. 2}

\* processes.py:64-71, called at hedging.py:125 and :185.
GridPaths(seed, entropy, n) ==
    PathsFrom(Variates(NewGenerator(seed, entropy), n * SimParams.n_steps), n)

\* hedging.py:84 and :92: cash *= ..., cash -= ... write into the array
\* that np.full allocated at :81; S_t and S_T are views of paths that are
\* only read.
StoreCash_into_paths(arrays, col, vec) ==
    [arrays EXCEPT !.cash = vec,
                   !.paths = [p \in 1 .. Len(vec) |->
                                 [@[p] EXCEPT ![col] = vec[p]]]]

StoreCash(arrays, col, vec) == [arrays EXCEPT !.cash = vec]

\* hedging.py:83-93: the passes of the loop from step st on.
RECURSIVE OnPathsFrom(_, _, _, _, _, _)
OnPathsFrom(arrays, st, k, tx, kind, g) ==
    LET n_steps == Len(arrays.paths[1]) - 1
        n == Len(arrays.paths)
    IN  IF st > n_steps THEN arrays
        ELSE LET accrued ==
                     StoreCash(arrays, st + 1,
                               [p \in 1 .. n |-> arrays.cash[p] * g])
                 S_t == [p \in 1 .. n |-> accrued.paths[p][st + 1]]
                 target == [p \in 1 .. n |->
                               HedgeDelta(S_t[p], n_steps - st, kind)]
                 trade == [p \in 1 .. n |-> target[p] - accrued.delta_pos[p]]
                 traded ==
                     StoreCash(accrued, st + 1,
                               [p \in 1 .. n |->
                                   accrued.cash[p]
                                   - (TradeValue(trade[p], S_t[p])
                                      + TradeCost(tx, trade[p], S_t[p]))])
             IN  OnPathsFrom(IF IsRebalance(st, n_steps, k)
                             THEN [traded EXCEPT !.delta_pos = target]
                             ELSE accrued,
                             st + 1, k, tx, kind, g)

\* hedging.py:72-106: simulate_delta_hedge_on_paths on the array P, with
\* the array as the call leaves it.
OnPaths(P, k, tx, kind, g) ==
    LET n == Len(P)
        n_steps == Len(P[1]) - 1
        s0 == P[1][1]
        premium == HedgePremium(s0, n_steps, kind)
        delta0 == HedgeDelta(s0, n_steps, kind)
        fin == OnPathsFrom(
                   [paths |-> P,
                    delta_pos |-> [p \in 1 .. n |-> delta0],
                    cash |-> [p \in 1 .. n |->
                                 premium - delta0 * s0
                                 - TradeCost(tx, delta0, s0)]],
                   1, k, tx, kind, g)
        errors == [p \in 1 .. n |->
                      LET S_T == fin.paths[p][n_steps + 1]
                      IN  R(fin.cash[p] + fin.delta_pos[p] * S_T
                            - TradeCost(tx, fin.delta_pos[p], S_T)
                            - HedgePayoff(S_T, kind))]
    IN  [paths |-> fin.paths,
         mean_error |-> Mean(errors),
         std_error |-> StdErrorSq(errors)]

\* hedging.py:210-219: the row of a pair.
GridRow(k, tx, run) ==
    [rebalance_every_k_steps |-> k, tx_cost_per_dollar |-> tx,
     mean_error |-> run.mean_error, std_error |-> run.std_error]

GridInit ==
    /\ grid_seed \in Seeds
    /\ grid_n_paths \in 2 .. MaxPaths
    /\ rebalance_list \in GridLists(GridIntervals)
    /\ tx_cost_list \in GridLists(GridCosts)
    /\ grid_type \in {"call", "put"}
    /\ grid_growth \in {1, 2}
    /\ base_paths = <<>>
    /\ grid_k = 0 /\ grid_tx = 0
    /\ rows = <<>>
    /\ grid_pc = "start"
    /\ grid_result = HedgeNoResult

\* hedging.py:185-196.
GridGenerate ==
    /\ UNCHANGED gridOthers
    /\ grid_pc = "start"
    /\ \E entropy \in ExplicitSeeds :
           base_paths' = GridPaths(grid_seed, entropy, grid_n_paths)
    /\ grid_k' = 1 /\ grid_tx' = 1
    /\ grid_pc' = "loop"
    /\ UNCHANGED <<gridInputs, rows, grid_result>>

\* hedging.py:197-219: the call for the pair at (grid_k, grid_tx) and its
\* row.
GridRun ==
    /\ UNCHANGED gridOthers
    /\ grid_pc = "loop"
    /\ grid_k <= Len(rebalance_list)
    /\ LET k == rebalance_list[grid_k]
           tx == tx_cost_list[grid_tx]
           run == OnPaths(base_paths, k, tx, grid_type, grid_growth)
       IN  /\ base_paths' = run.paths
           /\ rows' = Append(rows, GridRow(k, tx, run))
    /\ IF grid_tx < Len(tx_cost_list)
       THEN grid_tx' = grid_tx + 1 /\ UNCHANGED grid_k
       ELSE grid_tx' = 1 /\ grid_k' = grid_k + 1
    /\ UNCHANGED <<gridInputs, grid_pc, grid_result>>

\* hedging.py:220.
GridReturn ==
    /\ UNCHANGED gridOthers
    /\ grid_pc = "loop"
    /\ grid_k > Len(rebalance_list)
    /\ grid_result' = [kind |-> "return", rows |-> rows]
    /\ grid_pc' = "done"
    /\ UNCHANGED <<gridInputs, base_paths, grid_k, grid_tx, rows>>

GridNext ==
    \/ GridGenerate
    \/ GridRun
    \/ GridReturn

\* hedging.py:109-147: the row of an independent simulate_delta_hedge_gbm
\* run with the seed of the grid, the interval k and the cost tx.
IndependentRow(k, tx, entropy) ==
    GridRow(k, tx,
            OnPaths(GridPaths(grid_seed, entropy, grid_n_paths), k, tx,
                    grid_type, grid_growth))

\* The pair of the i-th row: the intervals in the outer loop, the costs in
\* the inner one.
PairAt(i) ==
    <<rebalance_list[((i - 1) \div Len(tx_cost_list)) + 1],
      tx_cost_list[((i - 1) % Len(tx_cost_list)) + 1]>>

C29_State ==
    (grid_pc \in {"loop", "done"} /\ grid_seed # None) =>
        /\ Len(rows) <= Len(rebalance_list) * Len(tx_cost_list)
        /\ grid_pc = "done" =>
               /\ Len(rows) = Len(rebalance_list) * Len(tx_cost_list)
               /\ grid_result.rows = rows
        /\ \A i \in 1 .. Len(rows), entropy \in ExplicitSeeds :
               rows[i] = IndependentRow(PairAt(i)[1], PairAt(i)[2], entropy)

C29_Frame == grid_pc = "loop" => base_paths' = base_paths

\* C29 as amended: simulate_delta_hedge_on_paths never modifies the array
\* of paths it is given; therefore every row of hedging_experiment_grid,
\* which generates the paths once and replays them for every pair of
\* rebalance interval and cost, equals the result of an independent
\* simulate_delta_hedge_gbm run with the same explicit seed, interval and
\* cost, whatever the order of the pairs.
C29_GridReplaysPaths == [](C29_State) /\ [][C29_Frame]_vars

\* C29's case: a seeded grid over two intervals, the longer one first, and
\* two costs has returned its four rows, and the rows of the first and the
\* last pair differ.
C29_Witness ==
    /\ grid_pc = "done"
    /\ grid_seed # None
    /\ rebalance_list = <<2, 1>>
    /\ Len(tx_cost_list) = 2
    /\ Len(rows) = 4
    /\ rows[1].mean_error # rows[4].mean_error

\* C29 as stated: the rows equal those of independent runs with the same
\* seed argument, whether it is a seed or None.
C29_RowsOfAnySeed ==
    grid_pc = "done" =>
        \A i \in 1 .. Len(rows), entropy \in ExplicitSeeds :
            rows[i] = IndependentRow(PairAt(i)[1], PairAt(i)[2], entropy)

ThIdle ==
    /\ th_lower = <<>> /\ th_diag = <<>> /\ th_upper = <<>> /\ th_rhs = <<>>
    /\ c_prime = <<>> /\ d_prime = <<>> /\ th_x = <<>> /\ th_i = 0
    /\ th_visits = <<>> /\ th_pc = "idle" /\ th_result = <<>>

CvIdle == cv_ST = <<>> /\ cv_pc = "idle" /\ cv_result = <<>>

GridIdle ==
    /\ grid_seed = 0 /\ grid_n_paths = 0 /\ rebalance_list = <<>>
    /\ tx_cost_list = <<>> /\ grid_type = "call" /\ grid_growth = 0
    /\ base_paths = <<>> /\ grid_k = 0 /\ grid_tx = 0 /\ rows = <<>>
    /\ grid_pc = "idle" /\ grid_result = <<>>

MoreIdle == ThIdle /\ CvIdle /\ GridIdle
BaseIdle == FdIdle /\ SimIdle /\ HedgeIdle /\ OvIdle /\ HvIdle /\ ParIdle
ExtIdle == BaseIdle /\ MoreIdle

(***************************************************************************)
(* Properties of the simulation calls.                                     *)
(***************************************************************************)
\* C14: with antithetic sampling on, for every requested path count n the
\* terminal Monte Carlo pricer uses exactly n variates: floor(n/2) drawn
\* values, then their negations in the same order, then one further draw
\* when n is odd; the drawn values are consecutive outputs of the call's
\* generator, and the n_paths field of the result equals n.
C14_AntitheticVariates ==
    \A c \in Callers :
        (sim_op[c] = "mc_price_european_gbm_terminal" /\ antithetic[c]
            /\ sim_pc[c] = "done") =>
           LET n == n_paths[c]
               h == n \div 2
           IN  /\ Len(z[c]) = n
               /\ Len(drawn[c]) = h + (n % 2)
               /\ \A i \in 1 .. Len(drawn[c]) :
                      drawn[c][i] = Stream(rng[c].seed, i)
               /\ \A i \in 1 .. h :
                      /\ z[c][i] = drawn[c][i]
                      /\ z[c][h + i] = -drawn[c][i]
               /\ n % 2 = 1 => z[c][n] = drawn[c][h + 1]
               /\ sim_result[c].kind = "return"
               /\ sim_result[c].n_paths = n

C14_Witness ==
    \E c \in Callers :
        /\ sim_op[c] = "mc_price_european_gbm_terminal" /\ antithetic[c]
        /\ sim_pc[c] = "done"
        /\ n_paths[c] = 3
        /\ z[c][1] # 0 /\ z[c][2] = -z[c][1]
        /\ sim_result[c].n_paths = 3

\* Two finished invocations of the same operation with the same explicit
\* seed and the same inputs.
SameCall(c, d) ==
    /\ c # d
    /\ sim_pc[c] = "done" /\ sim_pc[d] = "done"
    /\ sim_op[c] = sim_op[d] /\ n_paths[c] = n_paths[d]
    /\ antithetic[c] = antithetic[d]
    /\ sim_seed[c] = sim_seed[d] /\ sim_seed[c] # None

\* A result record without its wall-clock field.
WithoutRuntime(r) == [f \in DOMAIN r \ {"runtime_seconds"} |-> r[f]]

\* C15 (as amended): two invocations of a simulation operation with the
\* same explicit seed and the same inputs return records that agree in
\* every field other than runtime_seconds.
C15_SameSeedSameEstimate ==
    \A c, d \in Callers :
        SameCall(c, d) =>
            WithoutRuntime(sim_result[c]) = WithoutRuntime(sim_result[d])

C15_Witness ==
    \E c, d \in Callers :
        /\ SameCall(c, d)
        /\ sim_op[c] = "mc_price_european_gbm_terminal"
        /\ n_paths[c] = 3
        /\ sim_result[c].price = sim_result[d].price
        /\ ~IsNaN(sim_result[c].std_error)
        /\ sim_result[c].runtime_seconds # sim_result[d].runtime_seconds

\* C15 as stated: every numeric field of the two result records is
\* identical.
C15_SameSeedSameResult ==
    \A c, d \in Callers : SameCall(c, d) => sim_result[c] = sim_result[d]

\* The vector of variates of caller c's call when it runs alone.
AloneVariates(c) ==
    LET g == [seed |-> sim_seed[c], pos |-> 0]
        k == FirstDraw(sim_op[c], n_paths[c], antithetic[c])
        zs == Variates(g, k)
        z0 == IF antithetic[c] THEN zs \o Mirror(zs) ELSE zs
    IN  IF antithetic[c] /\ Len(z0) < n_paths[c]
        THEN z0 \o <<Stream(sim_seed[c], k + 1)>>
        ELSE z0

C16_State ==
    \A c \in Callers :
        (sim_seed[c] # None /\ sim_pc[c] \notin {"start"}
            /\ sim_result[c].kind # "raise") =>
           /\ rng[c].seed = sim_seed[c]
           /\ sim_pc[c] = "done" =>
                  /\ z[c] = AloneVariates(c)
                  /\ WithoutRuntime(sim_result[c]) =
                         WithoutRuntime(SimResult(sim_op[c], AloneVariates(c),
                                                  n_paths[c], antithetic[c], 0))

C16_Step ==
    /\ np_global' # np_global =>
           /\ sim_pc' = sim_pc /\ rng' = rng /\ z' = z
           /\ sim_result' = sim_result
    /\ \A c \in Callers :
           rng'[c] # rng[c] =>
               (sim_pc'[c] # sim_pc[c] \/ drawn'[c] # drawn[c])

BadFdControls ==
    fd_M < 3 \/ fd_N < 1 \/ fd_scheme \notin {"CN", "cn", "implicit"}

\* C12: fd_price_european_bs fails with the invalid-parameter failure,
\* before any time step is solved and without returning a grid, whenever
\* M < 3, or N < 1, or the scheme is not Crank-Nicolson or implicit.
C12_FdRejectsBadControls ==
    (fd_pc # "idle" /\ BadFdControls) =>
        /\ fd_pc \in {"start", "done"}
        /\ fd_solved = 0
        /\ fd_pc = "done" =>
               /\ fd_result.kind = "raise"
               /\ fd_result.exc = InvalidParameterExc

C12_Witness ==
    /\ fd_pc = "done"
    /\ fd_M >= 3 /\ fd_N >= 1 /\ fd_type \in {"call", "put"}
    /\ fd_scheme = "explicit"
    /\ fd_result = Raise(InvalidParameterExc, "scheme")
    /\ fd_solved = 0

\* The rows the backward stepping has computed so far.
ComputedRows ==
    IF fd_pc \in {"stepping", "done"} /\ fd_result.kind # "raise"
    THEN fd_n .. fd_N - 1
    ELSE {}

\* C13: in the grid of fd_price_european_bs, every time row n the backward
\* stepping computes holds in column 0 and column M the analytic boundary
\* values at t_n (call: 0 and S_max e^{-q tau} - K e^{-r tau}; put:
\* K e^{-r tau} and 0, tau = T - t_n), for both schemes, and the
\* tridiagonal solve writes columns 1 .. M-1 only.
C13_BoundaryColumns ==
    /\ \A n \in ComputedRows :
           LET tau == fd_N - n
               rown == value_grid[n + 1]
           IN  IF fd_type = "call"
               THEN /\ rown[1] = 0
                    /\ rown[fd_M + 1] = FMul(fd_Smax, ExpNeg(fd_q, tau))
                                        - FMul(fd_K, ExpNeg(fd_r, tau))
               ELSE /\ rown[1] = FMul(fd_K, ExpNeg(fd_r, tau))
                    /\ rown[fd_M + 1] = 0
    /\ fd_solved > 0 =>
           /\ fd_written = 1 .. fd_M - 1
           /\ 0 \notin fd_written /\ fd_M \notin fd_written

C13_Witness ==
    /\ fd_pc = "done" /\ fd_result.kind = "return"
    /\ fd_N = 2 /\ fd_type = "call" /\ fd_q = 1 /\ fd_scheme = "implicit"
    /\ value_grid[1][fd_M + 1] # value_grid[2][fd_M + 1]
    /\ value_grid[2][fd_M + 1] # value_grid[3][fd_M + 1]

CoreIdle == IVIdle /\ LatIdle /\ TableIdle /\ PricerIdle

InitIV == IVInit /\ LatIdle /\ TableIdle /\ PricerIdle /\ ExtIdle
InitLattice ==
    (LatInit \/ OneStepInit) /\ IVIdle /\ TableIdle /\ PricerIdle /\ ExtIdle
InitTable == TableInit /\ LatIdle /\ PricerIdle /\ ExtIdle
InitPricer == PricerInit /\ IVIdle /\ LatIdle /\ TableIdle /\ ExtIdle
InitFd ==
    FdInit /\ CoreIdle /\ SimIdle /\ HedgeIdle /\ OvIdle /\ HvIdle /\ ParIdle
    /\ MoreIdle
InitSim ==
    SimInit /\ CoreIdle /\ FdIdle /\ HedgeIdle /\ OvIdle /\ HvIdle /\ ParIdle
    /\ MoreIdle
InitHedge ==
    HedgeInit /\ CoreIdle /\ FdIdle /\ SimIdle /\ OvIdle /\ HvIdle /\ ParIdle
    /\ MoreIdle
InitOverlay ==
    OverlayInit /\ CoreIdle /\ FdIdle /\ SimIdle /\ HedgeIdle /\ HvIdle /\ ParIdle
    /\ MoreIdle
InitHeston ==
    HestonInit /\ CoreIdle /\ FdIdle /\ SimIdle /\ HedgeIdle /\ OvIdle /\ ParIdle
    /\ MoreIdle
InitThomas == ThomasInit /\ CoreIdle /\ BaseIdle /\ CvIdle /\ GridIdle
InitCv == CvInit /\ CoreIdle /\ BaseIdle /\ ThIdle /\ GridIdle
InitGrid == GridInit /\ CoreIdle /\ BaseIdle /\ ThIdle /\ CvIdle
InitParity ==
    ParityInit /\ CoreIdle /\ FdIdle /\ SimIdle /\ HedgeIdle /\ OvIdle /\ HvIdle
    /\ MoreIdle

\* The implied-volatility solver alone.
SpecIV == InitIV /\ [][IVNext]_vars
\* The lattice engine alone.
SpecLattice == InitLattice /\ [][LatNext]_vars

\* The table operations, with the solver they call.
SpecTable == InitTable /\ [][TableNext \/ IVNext]_vars

\* The pricing operations: the analytic functions, the finite-difference
\* and Monte Carlo pricers, and the lattice engine.
InitPricers == InitPricer \/ InitLattice
SpecPricers == InitPricers /\ [][PricerNext \/ LatNext]_vars

\* The finite-difference engine alone.
SpecFd == InitFd /\ [][FdNext]_vars

\* The simulation calls of two concurrent callers.
SpecSim == InitSim /\ [][SimNext]_vars

\* Two delta-hedge simulations on the same paths.
SpecHedge == InitHedge /\ [][HedgeNext]_vars

\* One protective-put overlay simulation.
SpecOverlay == InitOverlay /\ [][OvNext]_vars

\* One run of the two-factor path generator.
SpecHeston == InitHeston /\ [][HvNext]_vars

\* One put-call parity check.
SpecParity == InitParity /\ [][ParNext]_vars

\* One call of the tridiagonal solver.
SpecThomas == InitThomas /\ [][ThNext]_vars

\* One control-variate estimate.
SpecCv == InitCv /\ [][CvNext]_vars

\* One run of the hedging experiment grid.
SpecGrid == InitGrid /\ [][GridNext]_vars

\* The toolkit: one operation is called, with any arguments.
Init ==
    \/ InitIV \/ InitLattice \/ InitTable \/ InitPricer \/ InitFd
    \/ InitSim \/ InitHedge \/ InitOverlay \/ InitHeston \/ InitParity
    \/ InitThomas \/ InitCv \/ InitGrid
Next ==
    \/ IVNext \/ LatNext \/ TableNext \/ PricerNext \/ FdNext
    \/ SimNext \/ HedgeNext \/ OvNext \/ HvNext \/ ParNext
    \/ ThNext \/ CvNext \/ GridNext
Spec == Init /\ [][Next]_vars

====
